---- MODULE Spec2Model ----
(***************************************************************************)
(* Model of the autoconfigs resolution engine: Arg (option declarations),  *)
(* DynamicDefaults, ArgsGroup (configuration groups) and ArgParser (the    *)
(* orchestrator that resolves a tree of groups against a token list).      *)
(***************************************************************************)
EXTENDS Integers, Sequences, FiniteSets, TLC

(***************************************************************************)
(* Values.  A Python value is a pair <<tag, payload>>; the tag keeps the   *)
(* Python type so that str("1"), int 1 and True stay different values.     *)
(***************************************************************************)
None == <<"none", 0>>
DYNAMIC_DEFAULT_FLAG == <<"dyn", 0>>
StrV(s) == <<"str", s>>
IntV(n) == <<"int", n>>
BoolV(b) == <<"bool", b>>

NoErr == "ok"

\* The decimal literals int() parses in this model; any other string makes
\* int() raise ValueError.
IntLiterals == {"-1", "0", "1", "2", "5", "12", "50"}
IntOfStr(s) ==
    CASE s = "-1" -> -1
      [] s = "0" -> 0
      [] s = "1" -> 1
      [] s = "2" -> 2
      [] s = "5" -> 5
      [] s = "12" -> 12
      [] s = "50" -> 50
      [] OTHER -> 0

\* Python's type(value) constructor call for type in {str, int, bool}.
\* Result: [err, val].
py_construct(type, value) ==
    CASE type = "str" ->
           [err |-> NoErr,
            val |-> CASE value[1] = "str" -> value
                      [] value[1] = "int" -> StrV(ToString(value[2]))
                      [] value[1] = "bool" ->
                           StrV(IF value[2] THEN "True" ELSE "False")
                      [] OTHER -> StrV("<object>")]
      [] type = "int" ->
           CASE value[1] = "int" -> [err |-> NoErr, val |-> value]
             [] value[1] = "bool" ->
                  [err |-> NoErr, val |-> IntV(IF value[2] THEN 1 ELSE 0)]
             [] value[1] = "str" ->
                  IF value[2] \in IntLiterals
                  THEN [err |-> NoErr, val |-> IntV(IntOfStr(value[2]))]
                  ELSE [err |-> "TypeCastError", val |-> None]
             [] OTHER -> [err |-> "TypeCastError", val |-> None]
      [] OTHER ->  \* bool(value): truthiness
           [err |-> NoErr,
            val |-> CASE value[1] = "bool" -> value
                      [] value[1] = "int" -> BoolV(value[2] # 0)
                      [] value[1] = "str" -> BoolV(value[2] # "")
                      [] OTHER -> BoolV(TRUE)]

\* value in choices: Python compares with ==, under which True equals 1 and
\* False equals 0.
py_number(value) ==
    IF value[1] = "bool" THEN IntV(IF value[2] THEN 1 ELSE 0) ELSE value
py_in(value, choices) ==
    \E c \in choices : py_number(c) = py_number(value)

\* isinstance(value, type); bool is a subclass of int.
py_isinstance(value, type) ==
    \/ value[1] = type
    \/ (type = "int" /\ value[1] = "bool")

(***************************************************************************)
(* ConstraintCheckers.py.  A checker is [kind, bound, strict]; kind "none" *)
(* stands for constraint_check_fn = None.                                  *)
(***************************************************************************)
NoChecker == [kind |-> "none", bound |-> 0, strict |-> FALSE]
LowerBoundChecker(lower_bound, strict) ==
    [kind |-> "lower", bound |-> lower_bound, strict |-> strict]
UpperBoundChecker(upper_bound, strict) ==
    [kind |-> "upper", bound |-> upper_bound, strict |-> strict]

\* A faulty checker: every bound is taken as strict.
checker_call_all_strict(checker, value) ==
    IF value[1] \notin {"int", "bool"} THEN "TypeError"
    ELSE IF \/ checker.kind = "lower" /\ value[2] <= checker.bound
            \/ checker.kind = "upper" /\ value[2] >= checker.bound
    THEN "ConstraintViolationError" ELSE NoErr

\* checker.__call__(value): the error raised, or NoErr.  Comparing None or a
\* str with the integer bound raises TypeError in Python 3.
checker_call(checker, value) ==
    IF value[1] \notin {"int", "bool"} THEN "TypeError"
    ELSE LET v == IF value[1] = "bool" THEN (IF value[2] THEN 1 ELSE 0)
                  ELSE value[2]
         IN CASE checker.kind = "lower" ->
                   IF \/ (checker.strict /\ v <= checker.bound)
                      \/ (~checker.strict /\ v < checker.bound)
                   THEN "ConstraintViolationError" ELSE NoErr
              [] OTHER ->
                   IF \/ (checker.strict /\ v >= checker.bound)
                      \/ (~checker.strict /\ v > checker.bound)
                   THEN "ConstraintViolationError" ELSE NoErr

\* checker(value) as the caller sees it: the error raised, or the value
\* returned (return value).
checker_result(checker, value) ==
    [err |-> checker_call(checker, value),
     val |-> IF checker_call(checker, value) = NoErr THEN value ELSE None]

\* CompositeConstraintChecker.__init__, lines 49-53: the (bound, strict)
\* pairs of the lower-bound and of the upper-bound checkers given.
SelectKind(checkers, kind) ==
    SelectSeq(checkers, LAMBDA c : c.kind = kind)
PairsOf(checkers) ==
    {<<checkers[i].bound, checkers[i].strict>> : i \in DOMAIN checkers}
lower_bounds(checkers) == PairsOf(SelectKind(checkers, "lower"))
upper_bounds(checkers) == PairsOf(SelectKind(checkers, "upper"))

\* Python orders the sort keys (bound, flag) as tuples, False before True.
KeyLeq(a, b) == a[1] < b[1] \/ (a[1] = b[1] /\ (a[2] => b[2]))

\* Lines 55 and 59: the last pair of lower_bounds sorted by
\* (bound, not strict).
lower_key(x) == <<x[1], ~x[2]>>
max_lower(pairs) ==
    CHOOSE x \in pairs :
        \A y \in pairs : KeyLeq(lower_key(y), lower_key(x))

\* Lines 56 and 60: the first pair of upper_bounds sorted by (bound, strict).
upper_key(x) == <<x[1], x[2]>>
min_upper(pairs) ==
    CHOOSE x \in pairs :
        \A y \in pairs : KeyLeq(upper_key(x), upper_key(y))

\* Lines 58-71: the pairs picked are incompatible.
incompatible(lower, upper) ==
    /\ lower[1] >= upper[1]
    /\ \/ lower[2] /\ upper[2]
       \/ lower[2] /\ ~upper[2]
       \/ ~lower[2] /\ upper[2]

\* Lines 73-79: self.checkers.
collapsed(lowers, uppers) ==
    (IF lowers # {}
     THEN <<LowerBoundChecker(max_lower(lowers)[1], max_lower(lowers)[2])>>
     ELSE <<>>)
    \o (IF uppers # {}
        THEN <<UpperBoundChecker(min_upper(uppers)[1],
                                 min_upper(uppers)[2])>>
        ELSE <<>>)

composite_of(lowers, uppers) ==
    IF /\ lowers # {}
       /\ uppers # {}
       /\ incompatible(max_lower(lowers), min_upper(uppers))
    THEN [err |-> "IncompatibleConstraintsError", checkers |-> <<>>]
    ELSE [err |-> NoErr, checkers |-> collapsed(lowers, uppers)]

\* CompositeConstraintChecker(checkers).  Result: [err, checkers].
composite_init(checkers) ==
    composite_of(lower_bounds(checkers), upper_bounds(checkers))

\* CompositeConstraintChecker.__call__ on self.checkers from position i.
RECURSIVE composite_call_from(_, _, _)
composite_call_from(checkers, i, value) ==
    IF i > Len(checkers) THEN [err |-> NoErr, val |-> value]
    ELSE IF checker_result(checkers[i], value).err # NoErr
    THEN [err |-> checker_result(checkers[i], value).err, val |-> None]
    ELSE composite_call_from(checkers, i + 1,
                             checker_result(checkers[i], value).val)

composite_call(checkers, value) == composite_call_from(checkers, 1, value)

\* A CompositeConstraintChecker as an element of a list of checkers: it is
\* neither a LowerBoundChecker nor an UpperBoundChecker (lines 50 and 52),
\* and it holds the self.checkers its own construction left.
CompositeConstraintChecker(checkers) ==
    [kind |-> "composite", checkers |-> checkers]

\* component(value) for a component of either sort.
component_result(checker, value) ==
    IF checker.kind = "composite"
    THEN composite_call(checker.checkers, value)
    ELSE checker_result(checker, value)

(***************************************************************************)
(* DynamicDefaults.py                                                      *)
(***************************************************************************)
\* A mapping is a set of <<key, value>> pairs with distinct keys.
MapKeys(m) == {p[1] : p \in m}
MapGet(m, k) == (CHOOSE p \in m : p[1] = k)[2]

NoDynamicDefault ==
    [present |-> FALSE, default_field |-> "", default_dict |-> {},
     fallback_value |-> None]

\* A dynamic_defaults_dict is [field, rows]; rows is a set of
\* <<governing value, arg name, default>> triples (the nested dictionaries).
\* get_default_map_from_default_dict followed by DynamicDefaults.__post_init__
\* keeps, for one arg name, the pairs governing value -> default.
get_default_map_from_default_dict(default_dict, arg_name) ==
    {<<r[1], r[3]>> : r \in {q \in default_dict.rows : q[2] = arg_name}}

\* A faulty get_dynamic_default: the map is never consulted.
get_fallback_only(dd, depending_value) == dd.fallback_value

get_dynamic_default(dd, depending_value) ==
    IF depending_value \in MapKeys(dd.default_dict)
    THEN MapGet(dd.default_dict, depending_value)
    ELSE dd.fallback_value

(***************************************************************************)
(* Arg.py                                                                  *)
(***************************************************************************)
NoChoices == {<<"nochoices", 0>>}
NoDict == [field |-> "", rows |-> {}]

\* Arg(...) as written in a class body, before __post_init__.
ArgDecl(name, type, default, action, choices, check_fn, dd_dict, children) ==
    [name |-> name, type |-> type, default |-> default, action |-> action,
     choices |-> choices, constraint_check_fn |-> check_fn,
     dynamic_defaults_dict |-> dd_dict, children_args |-> children]

\* A faulty __post_init__: the declared default is not kept as the fallback.
Arg_post_init_no_fallback(a) ==
    IF a.dynamic_defaults_dict # NoDict
    THEN [name |-> a.name, type |-> a.type, action |-> a.action,
          choices |-> a.choices,
          constraint_check_fn |-> a.constraint_check_fn,
          children_args |-> a.children_args,
          dynamic_default |->
              [present |-> TRUE,
               default_field |-> a.dynamic_defaults_dict.field,
               default_dict |->
                   {<<r[1], r[3]>> :
                       r \in {q \in a.dynamic_defaults_dict.rows :
                                  q[2] = a.name}},
               fallback_value |-> None],
          default |-> DYNAMIC_DEFAULT_FLAG]
    ELSE [name |-> a.name, type |-> a.type, action |-> a.action,
          choices |-> a.choices,
          constraint_check_fn |-> a.constraint_check_fn,
          children_args |-> a.children_args,
          dynamic_default |->
              [present |-> FALSE, default_field |-> "", default_dict |-> {},
               fallback_value |-> None],
          default |-> a.default]

\* Arg.__post_init__: with a dynamic_defaults_dict the declared default becomes
\* the fallback and the default becomes DYNAMIC_DEFAULT_FLAG.
Arg_post_init(a) ==
    IF a.dynamic_defaults_dict # NoDict
    THEN [name |-> a.name, type |-> a.type, action |-> a.action,
          choices |-> a.choices,
          constraint_check_fn |-> a.constraint_check_fn,
          children_args |-> a.children_args,
          dynamic_default |->
              [present |-> TRUE,
               default_field |-> a.dynamic_defaults_dict.field,
               default_dict |->
                   get_default_map_from_default_dict(a.dynamic_defaults_dict,
                                                     a.name),
               fallback_value |-> a.default],
          default |-> DYNAMIC_DEFAULT_FLAG]
    ELSE [name |-> a.name, type |-> a.type, action |-> a.action,
          choices |-> a.choices,
          constraint_check_fn |-> a.constraint_check_fn,
          children_args |-> a.children_args,
          dynamic_default |-> NoDynamicDefault,
          default |-> a.default]

cast_value_to_arg_type(arg, value) ==
    IF value = None THEN [err |-> NoErr, val |-> value]
    ELSE py_construct(arg.type, value)

\* A faulty check_constraint: the checker is never called.
check_constraint_skipped(arg, value) == NoErr

check_constraint(arg, value) ==
    IF arg.constraint_check_fn.kind # "none"
    THEN checker_call(arg.constraint_check_fn, value)
    ELSE NoErr

\* The cast alone, with no check after it.
sanitize_cast_only(arg, value, c, constraint) ==
    IF c.err # NoErr THEN [err |-> c.err, val |-> None]
    ELSE [err |-> NoErr, val |-> c.val]

\* The checks in the order cast, type assertion, choices, constraint.
sanitize_choices_first(arg, value, c, constraint) ==
    IF c.err # NoErr THEN [err |-> c.err, val |-> None]
    ELSE IF ~(py_isinstance(c.val, arg.type) \/ c.val = None)
    THEN [err |-> "TypeMismatchError", val |-> None]
    ELSE IF /\ value # None
            /\ arg.choices # NoChoices
            /\ Cardinality(arg.choices) >= 1
            /\ ~py_in(value, arg.choices)
    THEN [err |-> "InvalidChoiceError", val |-> None]
    ELSE IF constraint # NoErr THEN [err |-> constraint, val |-> None]
    ELSE [err |-> NoErr, val |-> c.val]

\* Arg.sanitize_value_for_consumption: cast, type assertion, constraint, then
\* the choices assertion on the raw value.  Result: [err, val].
\* Lines 127-137, given the result c of the cast and the result constraint
\* of check_constraint on the cast value.
sanitize_cast_value(arg, value, c, constraint) ==
    IF c.err # NoErr THEN [err |-> c.err, val |-> None]
    ELSE IF ~(py_isinstance(c.val, arg.type) \/ c.val = None)
    THEN [err |-> "TypeMismatchError", val |-> None]
    ELSE IF constraint # NoErr THEN [err |-> constraint, val |-> None]
    ELSE IF /\ value # None
            /\ arg.choices # NoChoices
            /\ Cardinality(arg.choices) >= 1
            /\ ~py_in(value, arg.choices)
    THEN [err |-> "InvalidChoiceError", val |-> None]
    ELSE [err |-> NoErr, val |-> c.val]

sanitize_cast(arg, value, c) ==
    sanitize_cast_value(arg, value, c,
                        IF c.err = NoErr THEN check_constraint(arg, c.val)
                        ELSE NoErr)

sanitize_value_for_consumption(arg, value) ==
    sanitize_cast(arg, value, cast_value_to_arg_type(arg, value))

\* Arg.spawn_children_args: the class to construct, or NoClass.
NoClass == "NoClass"
spawn_children_args(arg, value) ==
    IF value \in MapKeys(arg.children_args)
    THEN MapGet(arg.children_args, value)
    ELSE NoClass

(***************************************************************************)
(* The group classes.  The tree resolved is the example tree of the        *)
(* repository (MainConfig and its children) cut down to the options that   *)
(* carry dependencies, with variation points chosen in Init (shape):       *)
(*   sched_order     scheduler declared before or after the option that    *)
(*                   depends on it, in the same group                      *)
(*   data_pos        DatasetConfig attached first or second under the root *)
(*   spawned_static  the spawned OneCycleLRConfig has a static child       *)
(*   gpt_field       the field_name of the spawned GPTBaseConfigs          *)
(*   shadow          a second slot named "dataset" later in the tree       *)
(*   prefix_option   DatasetConfig declares an option whose name extends   *)
(*                   that of an option of the spawned GPTBaseConfigs       *)
(*   adv_b_field     the field_name of the AdvBConfig that AdvConfig       *)
(*                   spawns after AdvAConfig                               *)
(***************************************************************************)
VARIABLES shape, groups, parser_options, rem_args, state, error, bfs_list,
          bfs_index, call_stack, have_parsed_root_flag, consume_log,
          dd_lookups, parse_str, calls, done_count, instance, first_run,
          probe

vars == <<shape, groups, parser_options, rem_args, state, error, bfs_list,
          bfs_index, call_stack, have_parsed_root_flag, consume_log,
          dd_lookups, parse_str, calls, done_count, instance, first_run,
          probe>>

\* What a step of one resolve leaves alone: the number of the tree instance
\* being resolved, the outcome kept of the instance before it, and the record
\* of a direct call of an operation.
outside == <<instance, first_run, probe>>

NoFieldName == "<None>"

BaseShape ==
    [sched_order |-> "gov_first", data_pos |-> "first",
     spawned_static |-> FALSE, gpt_field |-> "gpt_base_configs",
     shadow |-> "none", prefix_option |-> FALSE, adv_b_field |-> "adv_b",
     anneal_spawn |-> "none"]

AllShapes ==
    [sched_order : {"gov_first", "dep_first"}, data_pos : {"first", "second"},
     spawned_static : BOOLEAN,
     gpt_field : {"gpt_base_configs", "model", NoFieldName},
     shadow : {"none", "plain", "arg"}, prefix_option : BOOLEAN,
     adv_b_field : {"adv_b"}, anneal_spawn : {"none"}]

\* The number of variation points in which a shape differs from BaseShape.
Deviations(s) ==
    Cardinality({f \in DOMAIN BaseShape : s[f] # BaseShape[f]})

\* src/example/global_vars.py, cut down to three datasets and to the options
\* of the groups below; pct_start is counted in hundredths.
default_data_setting_dict ==
    [field |-> "dataset",
     rows |-> {<<StrV("sst2"), "model", StrV("bert")>>,
               <<StrV("sst2"), "scheduler", StrV("linear")>>,
               <<StrV("sst2"), "log_every", IntV(100)>>,
               <<StrV("sst2"), "no_test", BoolV(TRUE)>>,
               <<StrV("wikitext"), "model", StrV("gptbase")>>,
               <<StrV("wikitext"), "scheduler", StrV("one_cycle")>>,
               <<StrV("wikitext"), "log_every", IntV(100)>>,
               <<StrV("wikitext"), "pct_start", IntV(2)>>,
               <<StrV("mnist"), "model", StrV("simple")>>,
               <<StrV("mnist"), "log_every", IntV(0)>>}]

default_scheduler_setting_dict ==
    [field |-> "scheduler",
     rows |-> {<<StrV("one_cycle"), "scheduler_step_every", StrV("batch")>>,
               <<StrV("linear"), "scheduler_step_every", StrV("batch")>>,
               <<StrV("reduce_lr_on_plateau"), "scheduler_step_every",
                 StrV("epoch")>>}]

StrChoices(S) == {StrV(s) : s \in S}
AVAIL_DATASETS == StrChoices({"mnist", "cifar10", "wikitext", "sst2"})
AVAIL_MODELS == StrChoices({"resnet50", "gptbase", "bert"})
AVAIL_SCHEDULERS ==
    StrChoices({"linear", "one_cycle", "cos", "reduce_lr_on_plateau"})

\* A dataclass field of a class body: an Arg(...) as written, or a plain value.
ArgField(a) == <<a.name, <<"arg", a>> >>
ConfigField(name, value) == <<name, <<"val", value>> >>

scheduler_arg ==
    ArgDecl("scheduler", "str", None, "store", AVAIL_SCHEDULERS, NoChecker,
            default_data_setting_dict,
            {<<StrV("one_cycle"), "OneCycleLRConfig">>})
scheduler_step_every_arg ==
    ArgDecl("scheduler_step_every", "str", StrV("batch"), "store",
            StrChoices({"epoch", "batch"}), NoChecker,
            default_scheduler_setting_dict, {})

\* The body of a class: its dataclass fields in declaration order.
ClassBody(cls) ==
    CASE cls = "MainConfig" ->
           <<ArgField(ArgDecl("seed", "int", None, "store", NoChoices,
                              NoChecker, NoDict, {})),
             ArgField(ArgDecl("mode", "str", StrV("plain"), "store",
                              NoChoices, NoChecker, NoDict,
                              {<<StrV("adv"), "AdvConfig">>,
                               <<StrV("bare"), "BareConfig">>}))>>
      [] cls = "DatasetConfig" ->
           <<ArgField(ArgDecl("dataset", "str", StrV("cifar10"), "store",
                              AVAIL_DATASETS, NoChecker, NoDict, {}))>>
           \o (IF shape.prefix_option
               THEN <<ArgField(ArgDecl("n_layer_cache", "int", IntV(0),
                                       "store", NoChoices, NoChecker, NoDict,
                                       {}))>>
               ELSE <<>>)
      [] cls = "ModelConfig" ->
           <<ArgField(ArgDecl("model", "str", StrV("resnet50"), "store",
                              AVAIL_MODELS, NoChecker,
                              default_data_setting_dict,
                              {<<StrV("gptbase"), "GPTBaseConfigs">>}))>>
      [] cls = "GPTBaseConfigs" ->
           <<ConfigField("vocab_size", IntV(50304)),
             ArgField(ArgDecl("n_layer", "int", IntV(12), "store", NoChoices,
                              NoChecker, NoDict, {}))>>
           \o (IF shape.shadow = "plain"
               THEN <<ConfigField("dataset", StrV("sst2"))>> ELSE <<>>)
      [] cls = "TrainerConfig" ->
           <<ArgField(ArgDecl("no_test", "bool", BoolV(FALSE), "store_true",
                              NoChoices, NoChecker,
                              default_data_setting_dict, {}))>>
      [] cls = "LoggingConfig" ->
           <<ArgField(ArgDecl("log_every", "int", IntV(50), "store",
                              NoChoices, LowerBoundChecker(0, TRUE),
                              default_data_setting_dict, {}))>>
      [] cls = "SchedulerConfig" ->
           (IF shape.sched_order = "gov_first"
            THEN <<ArgField(scheduler_arg),
                   ArgField(scheduler_step_every_arg)>>
            ELSE <<ArgField(scheduler_step_every_arg),
                   ArgField(scheduler_arg)>>)
           \o (IF shape.shadow = "arg"
               THEN <<ArgField(ArgDecl("dataset", "str", StrV("cifar10"),
                                       "store", AVAIL_DATASETS, NoChecker,
                                       NoDict, {}))>>
               ELSE <<>>)
      [] cls = "OneCycleLRConfig" ->
           <<ArgField(ArgDecl("anneal_strategy", "str", StrV("cos"), "store",
                              StrChoices({"cos", "linear", "none"}),
                              NoChecker, NoDict,
                              {<<StrV("linear"), "AnnealConfig">>})),
             ArgField(ArgDecl("pct_start", "int", IntV(30), "store",
                              NoChoices, NoChecker,
                              default_data_setting_dict, {}))>>
      [] cls = "AnnealConfig" ->
           <<ArgField(ArgDecl("rate", "int", IntV(1), "store", NoChoices,
                              NoChecker, NoDict,
                              IF shape.anneal_spawn = "self"
                              THEN {<<IntV(1), "AnnealConfig">>}
                              ELSE {}))>>
      [] cls = "SubConfig" ->
           <<ArgField(ArgDecl("sub_opt", "int", IntV(1), "store", NoChoices,
                              NoChecker, NoDict, {}))>>
      [] cls = "AdvConfig" ->
           <<ArgField(ArgDecl("adv_first", "str", StrV("a"), "store",
                              NoChoices, NoChecker, NoDict,
                              {<<StrV("a"), "AdvAConfig">>})),
             ArgField(ArgDecl("adv_second", "str", StrV("b"), "store",
                              NoChoices, NoChecker, NoDict,
                              {<<StrV("b"), "AdvBConfig">>}))>>
      [] cls = "AdvAConfig" ->
           <<ArgField(ArgDecl("a_opt", "int", IntV(1), "store", NoChoices,
                              NoChecker, NoDict, {}))>>
      [] cls = "AdvBConfig" ->
           <<ArgField(ArgDecl("b_opt", "int", IntV(1), "store", NoChoices,
                              NoChecker, NoDict, {}))>>
      [] cls = "AdvSubConfig" ->
           <<ArgField(ArgDecl("adv_opt", "int", IntV(2), "store", NoChoices,
                              NoChecker, NoDict, {}))>>
      [] OTHER -> <<>>  \* BareConfig: a group without options

\* The fields of a new instance: each Arg has run its __post_init__.
InitFields(body) ==
    [i \in DOMAIN body |->
        IF body[i][2][1] = "arg"
        THEN <<body[i][1], <<"arg", Arg_post_init(body[i][2][2])>> >>
        ELSE body[i]]
ClassFields(cls) == InitFields(ClassBody(cls))

\* The static children a class attaches in __post_init__, in order:
\* <<attribute name, class>>.
ClassStatics(cls) ==
    CASE cls = "MainConfig" ->
           IF shape.data_pos = "first"
           THEN << <<"dataset_config", "DatasetConfig">>,
                   <<"model_config", "ModelConfig">>,
                   <<"trainer_config", "TrainerConfig">> >>
           ELSE << <<"model_config", "ModelConfig">>,
                   <<"dataset_config", "DatasetConfig">>,
                   <<"trainer_config", "TrainerConfig">> >>
      [] cls = "TrainerConfig" ->
           << <<"logger_config", "LoggingConfig">>,
              <<"scheduler_config", "SchedulerConfig">> >>
      [] cls = "OneCycleLRConfig" ->
           IF shape.spawned_static
           THEN << <<"sub_config", "SubConfig">> >> ELSE <<>>
      [] cls = "AdvConfig" -> << <<"adv_sub", "AdvSubConfig">> >>
      [] OTHER -> <<>>

\* The field_name a class passes to ArgsGroup.__init__.
ClassFieldName(cls) ==
    CASE cls = "OneCycleLRConfig" -> "one_cycle"
      [] cls = "GPTBaseConfigs" -> shape.gpt_field
      [] cls = "AnnealConfig" -> "anneal"
      [] cls = "AdvConfig" -> "adv"
      [] cls = "AdvAConfig" -> "adv_a"
      [] cls = "AdvBConfig" -> shape.adv_b_field
      [] cls = "BareConfig" -> "bare"
      [] OTHER -> NoFieldName

(***************************************************************************)
(* ArgsGroup.py.  groups is the sequence of all ArgsGroup objects built so *)
(* far; an object is named by its index, and 0 stands for None.  slots is  *)
(* vars(self) restricted to the public attributes, in insertion order:     *)
(* <<name, content>> with content <<"arg", Arg>>, <<"val", value>> or      *)
(* <<"grp", group>>.                                                       *)
(***************************************************************************)
NoGroup == 0

SlotNames(slots) == {slots[i][1] : i \in DOMAIN slots}
SlotIndex(slots, name) == CHOOSE i \in DOMAIN slots : slots[i][1] = name

\* object.__setattr__ on a public attribute: an existing key keeps its place.
SetSlot(slots, name, content) ==
    IF name \in SlotNames(slots)
    THEN [slots EXCEPT ![SlotIndex(slots, name)] = <<name, content>>]
    ELSE Append(slots, <<name, content>>)

\* ArgsGroup.__setattr__ (with _set_parent).  Result: [err, groups]; the
\* attribute and the children list are already written when _set_parent's
\* assertion fails.
set_parent(g2, self, value) ==
    IF g2[value].group_parent # NoGroup
    THEN [err |-> "ParentAlreadySetError", groups |-> g2]
    ELSE [err |-> NoErr, groups |-> [g2 EXCEPT ![value].group_parent = self]]

\* A faulty __setattr__: the child is put at the head of the children list.
ArgsGroup_setattr_prepend(gs, self, name, content) ==
    IF content[1] # "grp"
    THEN [err |-> NoErr,
          groups |-> [gs EXCEPT ![self].slots = SetSlot(@, name, content)]]
    ELSE set_parent([gs EXCEPT ![self].slots = SetSlot(@, name, content),
                               ![self].children_argsgroup =
                                   <<content[2]>> \o @],
                    self, content[2])

ArgsGroup_setattr(gs, self, name, content) ==
    IF content[1] # "grp"
    THEN [err |-> NoErr,
          groups |-> [gs EXCEPT ![self].slots = SetSlot(@, name, content)]]
    ELSE set_parent([gs EXCEPT ![self].slots = SetSlot(@, name, content),
                               ![self].children_argsgroup =
                                   Append(@, content[2])],
                    self, content[2])

\* The constructor of a group class: the dataclass __init__ stores the fields,
\* ArgsGroup.__init__ sets the private attributes, and __post_init__ builds
\* and attaches the static children one after the other.  The new object is
\* groups[Len(gs) + 1] of the result.
RECURSIVE Construct(_, _)
RECURSIVE AttachStatics(_, _, _, _)
Construct(gs, cls) ==
    LET self == Len(gs) + 1
        obj == [cls |-> cls, group_name |-> cls,
                field_name |-> ClassFieldName(cls),
                group_parent |-> NoGroup, children_argsgroup |-> <<>>,
                slots |-> ClassFields(cls), args_are_consumed |-> FALSE,
                root_argsgroup |-> NoGroup]
    IN  AttachStatics(Append(gs, obj), self, ClassStatics(cls), 1)

AttachStatics(gs, self, statics, i) ==
    IF i > Len(statics) THEN gs
    ELSE AttachStatics(
             ArgsGroup_setattr(Construct(gs, statics[i][2]), self,
                               statics[i][1], <<"grp", Len(gs) + 1>>).groups,
             self, statics, i + 1)

get_children_argsgroup(gs, self) == gs[self].children_argsgroup

RECURSIVE get_all_children_argsgroup_dfs(_, _)
RECURSIVE DfsOver(_, _, _)
get_all_children_argsgroup_dfs(gs, self) ==
    DfsOver(gs, get_children_argsgroup(gs, self), 1)
DfsOver(gs, my_children, i) ==
    IF i > Len(my_children) THEN <<>>
    ELSE <<my_children[i]>>
         \o get_all_children_argsgroup_dfs(gs, my_children[i])
         \o DfsOver(gs, my_children, i + 1)

\* The deque loop of _get_all_children_argsgroup_bfs.
RECURSIVE BfsLoop(_, _, _)
BfsLoop(gs, visit_queue, result) ==
    IF Len(visit_queue) = 0 THEN result
    ELSE BfsLoop(gs,
                 Tail(visit_queue)
                     \o get_children_argsgroup(gs, Head(visit_queue)),
                 Append(result, Head(visit_queue)))
\* A faulty breadth-first traversal: the visit stops at the children.
bfs_children_only(gs, self) == get_children_argsgroup(gs, self)

get_all_children_argsgroup_bfs(gs, self) ==
    BfsLoop(gs, get_children_argsgroup(gs, self), <<>>)

\* get_children_args: the Arg objects of the group, in attribute order.
SelectArgs(slots) ==
    SelectSeq(slots, LAMBDA sl : sl[2][1] = "arg")
SlotContents(sl) == [i \in DOMAIN sl |-> sl[i][2][2]]
get_children_args(gs, self) == SlotContents(SelectArgs(gs[self].slots))

\* A dict built from slots: field -> what(content).
SlotDict(sl) == [f \in SlotNames(sl) |-> sl[SlotIndex(sl, f)][2]]
ArgsOf(d) == [f \in DOMAIN d |-> d[f][2]]

\* get_children_args_fields_to_value: field -> Arg, as a function.
get_children_args_fields_to_value(gs, self) ==
    ArgsOf(SlotDict(SelectArgs(gs[self].slots)))

\* get_children_fields_to_values: every attribute except the ArgsGroup ones,
\* field -> content, as a function.
get_children_fields_to_values(gs, self) ==
    SlotDict(SelectSeq(gs[self].slots, LAMBDA x : x[2][1] # "grp"))

\* dict.update
DictUpdate(d, e) ==
    [k \in DOMAIN d \cup DOMAIN e |-> IF k \in DOMAIN e THEN e[k] ELSE d[k]]

RECURSIVE UpdateAll(_, _, _, _)
UpdateAll(gs, result, children, i) ==
    IF i > Len(children) THEN result
    ELSE UpdateAll(gs,
                   DictUpdate(result,
                              get_children_fields_to_values(gs, children[i])),
                   children, i + 1)

get_all_children_fields_to_values(gs, self) ==
    UpdateAll(gs, get_children_fields_to_values(gs, self),
              get_all_children_argsgroup_dfs(gs, self), 1)

RECURSIVE get_root_argsgroup(_, _)
get_root_argsgroup(gs, self) ==
    IF gs[self].group_parent = NoGroup THEN self
    ELSE get_root_argsgroup(gs, gs[self].group_parent)

\* The root_argsgroup property: computed on first use, then cached.
root_argsgroup(gs, self) ==
    IF gs[self].root_argsgroup = NoGroup
    THEN [gs EXCEPT ![self].root_argsgroup = get_root_argsgroup(gs, self)]
    ELSE gs

\* get_value_from_field_in_tree.  Result: [err, val, groups] where val is the
\* content found and groups carries the cached root.
search_in_dict(search_dict, field, g1) ==
    IF field \notin DOMAIN search_dict
    THEN [err |-> "UnknownFieldError", val |-> <<"val", None>>, groups |-> g1]
    ELSE [err |-> NoErr, val |-> search_dict[field], groups |-> g1]

search_from_root(g1, self, field) ==
    search_in_dict(
        get_all_children_fields_to_values(g1, g1[self].root_argsgroup),
        field, g1)

get_value_from_field_in_tree(gs, self, field) ==
    search_from_root(root_argsgroup(gs, self), self, field)

\* get_dynamic_default_for_arg.  Result: [err, val, groups, governing];
\* governing is the value of default_dependent_field the lookup returned.
\* A faulty get_dynamic_default_for_arg: an unresolved governing field is not
\* rejected; its declared default is used.
dynamic_default_unordered(found, arg) ==
    IF found.err # NoErr
    THEN [err |-> found.err, val |-> None, groups |-> found.groups,
          governing |-> None]
    ELSE [err |-> NoErr,
          val |-> arg.dynamic_default.fallback_value,
          groups |-> found.groups,
          governing |-> IF found.val[1] = "arg" THEN None
                        ELSE found.val[2]]

\* Lines 171-178 of get_dynamic_default_for_arg, given what the lookup of the
\* default field found.
dynamic_default_from(found, arg) ==
    IF found.err # NoErr
    THEN [err |-> found.err, val |-> None, groups |-> found.groups,
          governing |-> None]
    ELSE IF found.val[1] = "arg"
    THEN [err |-> "OrderingError", val |-> None, groups |-> found.groups,
          governing |-> None]
    ELSE [err |-> NoErr,
          val |-> get_dynamic_default(arg.dynamic_default, found.val[2]),
          groups |-> found.groups, governing |-> found.val[2]]

get_dynamic_default_for_arg(gs, self, arg) ==
    IF ~arg.dynamic_default.present
    THEN [err |-> "AssertionError", val |-> None, groups |-> gs,
          governing |-> None]
    ELSE dynamic_default_from(
             get_value_from_field_in_tree(
                 gs, self, arg.dynamic_default.default_field),
             arg)

\* spawn_args_children.  Result: [err, groups, spawned].  The child is built
\* before its field_name is checked.
\* A faulty spawn: the child is attached but not reported to the caller.
spawn_attached_unlisted(attached, spawned_child, spawned) ==
    [err |-> attached.err, groups |-> attached.groups, spawned |-> spawned]

\* Lines 152-154: setattr of the spawned child, then the append to the list.
spawn_attached(attached, spawned_child, spawned) ==
    [err |-> attached.err, groups |-> attached.groups,
     spawned |-> IF attached.err = NoErr
                 THEN Append(spawned, spawned_child) ELSE spawned]

\* Lines 147-154, given the heap built after the child's construction.
spawn_built(built, self, spawned_child, spawned) ==
    IF built[spawned_child].field_name = NoFieldName
    THEN [err |-> "DuplicateFieldError", groups |-> built,
          spawned |-> spawned]
    ELSE IF built[spawned_child].field_name
                \in DOMAIN get_children_fields_to_values(built, self)
    THEN [err |-> "DuplicateFieldError", groups |-> built,
          spawned |-> spawned]
    ELSE spawn_attached(ArgsGroup_setattr(built, self,
                                          built[spawned_child].field_name,
                                          <<"grp", spawned_child>>),
                        spawned_child, spawned)

\* Lines 141-146: the class the Arg names for new_value is constructed.
spawn_class(gs, self, child_argsgroup_to_spawn, spawned) ==
    IF child_argsgroup_to_spawn = NoClass
    THEN [err |-> NoErr, groups |-> gs, spawned |-> spawned]
    ELSE spawn_built(Construct(gs, child_argsgroup_to_spawn), self,
                     Len(gs) + 1, spawned)

spawn_args_children(gs, self, arg, new_value, spawned) ==
    spawn_class(gs, self, spawn_children_args(arg, new_value), spawned)

\* consume_arg
consume_arg(gs, self, field, new_value) ==
    ArgsGroup_setattr(gs, self, field, <<"val", new_value>>).groups

\* A faulty mark_self_as_parsed: the flag is left as it is.
mark_self_unmarked(gs, self) == gs

\* A faulty mark_self_as_parsed: every group of the heap is flagged.
mark_all_as_parsed(gs, self) ==
    [g \in DOMAIN gs |-> [gs[g] EXCEPT !.args_are_consumed = TRUE]]

\* mark_self_as_parsed
mark_self_as_parsed(gs, self) ==
    [gs EXCEPT ![self].args_are_consumed = TRUE]

\* A faulty loop order: the namespace is visited last entry first.
NamespaceReversed(namespace) ==
    [i \in 1..Len(namespace) |-> namespace[Len(namespace) + 1 - i]]

\* The order in which the loop of process_and_consume_args_with_namespace
\* visits the entries of the namespace: vars(namespace), first to last.
NamespaceOrder(namespace) == namespace

\* Whether the loop computes the dynamic default for a namespace value.
IsDynamicDefault(value) == value = DYNAMIC_DEFAULT_FLAG

\* One iteration of the loop of process_and_consume_args_with_namespace on
\* the namespace entry <<field, value>>.  st is [err, groups, spawned,
\* lookups]; lookups lists the evaluations of dynamic defaults: [group, field,
\* err, governing].

\* Line 134: consume_arg after the spawn sp of the sanitized value.
ConsumeSpawned(sp, self, field, new_value, looked) ==
    IF sp.err # NoErr
    THEN [err |-> sp.err, groups |-> sp.groups, spawned |-> sp.spawned,
          lookups |-> looked]
    ELSE [err |-> NoErr,
          groups |-> consume_arg(sp.groups, self, field, new_value),
          spawned |-> sp.spawned, lookups |-> looked]

\* Lines 131-133: spawn_args_children on the sanitized value san.
ConsumeSanitized(san, gs, spawned, self, arg, field, looked) ==
    IF san.err # NoErr
    THEN [err |-> san.err, groups |-> gs, spawned |-> spawned,
          lookups |-> looked]
    ELSE ConsumeSpawned(spawn_args_children(gs, self, arg, san.val, spawned),
                        self, field, san.val, looked)

\* Line 129: sanitize the value dyn the loop holds after lines 125-127.
ConsumeValue(dyn, spawned, self, arg, field, looked) ==
    IF dyn.err # NoErr
    THEN [err |-> dyn.err, groups |-> dyn.groups, spawned |-> spawned,
          lookups |-> looked]
    ELSE ConsumeSanitized(sanitize_value_for_consumption(arg, dyn.val),
                          dyn.groups, spawned, self, arg, field, looked)

\* Lines 125-127 done with the outcome dyn of get_dynamic_default_for_arg.
ConsumeDynamic(dyn, st, self, arg, field) ==
    ConsumeValue(dyn, st.spawned, self, arg, field,
                 Append(st.lookups,
                        [group |-> self, field |-> field, err |-> dyn.err,
                         governing |-> dyn.governing]))

ConsumeStep(st, self, children_args_dict, field, value) ==
    IF field \notin DOMAIN children_args_dict
    THEN [st EXCEPT !.err = "UnexpectedFieldError"]
    ELSE IF IsDynamicDefault(value)
    THEN ConsumeDynamic(get_dynamic_default_for_arg(
                            st.groups, self, children_args_dict[field]),
                        st, self, children_args_dict[field], field)
    ELSE ConsumeValue([err |-> NoErr, val |-> value, groups |-> st.groups],
                      st.spawned, self, children_args_dict[field], field,
                      st.lookups)

\* The loop: the entries of the namespace in order, until one raises.
RECURSIVE ConsumeLoop(_, _, _, _, _)
ConsumeLoop(st, self, children_args_dict, namespace, i) ==
    IF i > Len(namespace) \/ st.err # NoErr THEN st
    ELSE ConsumeLoop(ConsumeStep(st, self, children_args_dict,
                                 namespace[i][1], namespace[i][2]),
                     self, children_args_dict, namespace, i + 1)

\* A faulty end of consume: the group is marked as parsed also when the loop
\* raised.
ConsumeEndMarking(done, self) ==
    [done EXCEPT !.groups = mark_self_as_parsed(@, self)]

\* process_and_consume_args_with_namespace.  The namespace is a sequence of
\* <<field, value>>.  Result: [err, groups, spawned, lookups].
\* Line 136, reached when the loop raised nothing.
ConsumeEnd(done, self) ==
    IF done.err # NoErr THEN done
    ELSE [done EXCEPT !.groups = mark_self_as_parsed(@, self)]

\* A faulty consume: the assertion of lines 118-119 is missing.
consume_unguarded(gs, self, namespace) ==
    ConsumeEnd(ConsumeLoop([err |-> NoErr, groups |-> gs, spawned |-> <<>>,
                            lookups |-> <<>>],
                           self, get_children_args_fields_to_value(gs, self),
                           NamespaceOrder(namespace), 1),
               self)

process_and_consume_args_with_namespace(gs, self, namespace) ==
    IF gs[self].args_are_consumed
    THEN [err |-> "AlreadyConsumedError", groups |-> gs, spawned |-> <<>>,
          lookups |-> <<>>]
    ELSE ConsumeEnd(ConsumeLoop([err |-> NoErr, groups |-> gs,
                                 spawned |-> <<>>, lookups |-> <<>>],
                                self,
                                get_children_args_fields_to_value(gs, self),
                                NamespaceOrder(namespace), 1),
                    self)

(***************************************************************************)
(* argparse, as far as the orchestrator depends on it.  A token is         *)
(* [name, val]: the option string and the string that follows it ("" for a *)
(* flag).  A parser built with allow_abbrev (get_new_parser) also accepts  *)
(* a token that is a prefix of exactly one of its option strings; the root *)
(* parser (get_init_root_parser) matches option strings exactly.           *)
(***************************************************************************)
\* str.startswith on the option strings of the model: the pairs
\* <<prefix, option string>> with the prefix shorter than the option string.
ProperPrefixes ==
    {<<"mode", "model">>, <<"scheduler", "scheduler_step_every">>,
     <<"n_layer", "n_layer_cache">>}
startswith(option_string, option_prefix) ==
    \/ option_string = option_prefix
    \/ <<option_prefix, option_string>> \in ProperPrefixes

\* The registered arguments a token selects: the one it names exactly, else
\* with allow_abbrev those it abbreviates.
ExactOptions(args, tok) == {i \in DOMAIN args : args[i].name = tok.name}
AbbrevOptions(args, tok) ==
    {i \in DOMAIN args : startswith(args[i].name, tok.name)}
OptionTuples(args, tok, allow_abbrev) ==
    IF ExactOptions(args, tok) # {} THEN ExactOptions(args, tok)
    ELSE IF allow_abbrev THEN AbbrevOptions(args, tok)
    ELSE {}
TokenMatches(args, tok, allow_abbrev) ==
    OptionTuples(args, tok, allow_abbrev) # {}

\* The value the parser stores for one registered argument.
\* A faulty parser: the value given on the command line is dropped.
StoredDefault(arg, mine) == arg.default

\* The value stored for arg when mine are the tokens selecting it.
StoredValue(arg, mine) ==
    IF Len(mine) = 0 THEN arg.default
    ELSE IF arg.action = "store_true" THEN BoolV(TRUE)
    ELSE StrV(mine[Len(mine)].val)
NamespaceValue(args, i, toks, allow_abbrev) ==
    StoredValue(args[i],
                SelectSeq(toks,
                          LAMBDA t : i \in OptionTuples(args, t,
                                                        allow_abbrev)))

\* parse_known_args of a parser holding args.  Result: [err, namespace,
\* rem_args]: every registered dest in registration order, and the tokens
\* no registered argument matches, in their order.  An explicit value outside
\* a registered choices list, or a token abbreviating several option
\* strings, makes argparse exit.
\* A faulty parse: the tokens no argument matches are thrown away.
parse_args_dropping(args, toks, allow_abbrev) ==
    [err |-> NoErr,
     namespace |-> [i \in DOMAIN args |->
                       <<args[i].name,
                         NamespaceValue(args, i, toks, allow_abbrev)>>],
     rem_args |-> <<>>]

InvalidChoiceToken(args, t, allow_abbrev) ==
    \E i \in OptionTuples(args, t, allow_abbrev) :
        /\ args[i].action = "store"
        /\ args[i].choices # NoChoices
        /\ StrV(t.val) \notin args[i].choices

AmbiguousToken(args, t, allow_abbrev) ==
    Cardinality(OptionTuples(args, t, allow_abbrev)) > 1

parse_known_args(args, toks, allow_abbrev) ==
    [err |-> IF \E k \in DOMAIN toks :
                    \/ AmbiguousToken(args, toks[k], allow_abbrev)
                    \/ InvalidChoiceToken(args, toks[k], allow_abbrev)
             THEN "ArgparseExit" ELSE NoErr,
     namespace |-> [i \in DOMAIN args |->
                       <<args[i].name,
                         NamespaceValue(args, i, toks, allow_abbrev)>>],
     rem_args |-> SelectSeq(toks,
                            LAMBDA t : ~TokenMatches(args, t, allow_abbrev))]

\* add_children_args_to_parser on a group of the root parser: option strings
\* already registered there conflict.  Result: [err, options].
OptionStrings(args) == {args[i].name : i \in DOMAIN args}
add_children_args_to_parser(options, args) ==
    IF OptionStrings(args) \cap options # {}
    THEN [err |-> "ArgumentConflictError", options |-> options]
    ELSE [err |-> NoErr, options |-> options \cup OptionStrings(args)]

(***************************************************************************)
(* ArgParser.py                                                            *)
(***************************************************************************)
MaxTokens == 2
MaxDeviations == 1

Tok(name, val) == [name |-> name, val |-> val]

\* The tokens a parse_str is drawn from; a parse_str keeps their order.
TokenPool ==
    <<Tok("dataset", "wikitext"), Tok("dataset", "sst2"),
      Tok("dataset", "mnist"),
      Tok("model", "bert"), Tok("scheduler", "reduce_lr_on_plateau"),
      Tok("scheduler_step_every", "epoch"), Tok("log_every", "1"),
      Tok("log_every", "-1"), Tok("no_test", ""), Tok("bogus", "1"),
      Tok("n_layer", "2"), Tok("mode", "adv"), Tok("mode", "bare"),
      Tok("anneal_strategy", "linear"), Tok("seed", "abc")>>

PickTokens(S) ==
    [k \in 1..Cardinality(S) |->
        TokenPool[CHOOSE i \in S : Cardinality({j \in S : j < i}) = k - 1]]

TokenLists ==
    {PickTokens(S) : S \in {T \in SUBSET DOMAIN TokenPool :
                                Cardinality(T) <= MaxTokens}}

Shapes == {s \in AllShapes : Deviations(s) <= MaxDeviations}

\* ArgParser.root
root == 1

\* The body of parse_and_process_argsgroup up to the consume (lines 18-24):
\* register with the root parser, parse the remaining tokens with a parser of
\* the group's own, consume.  Result: [err, groups, options, rem_args,
\* spawned, lookups, consumed]; consumed tells whether consume was called.
consumed_result(c, options, rem) ==
    [err |-> c.err, groups |-> c.groups, options |-> options,
     rem_args |-> rem, spawned |-> c.spawned, lookups |-> c.lookups,
     consumed |-> TRUE]

parse_registered(gs, reg, parsed, rem, argsgroup) ==
    IF reg.err # NoErr \/ parsed.err # NoErr
    THEN [err |-> IF reg.err # NoErr THEN reg.err ELSE parsed.err,
          groups |-> gs, options |-> reg.options, rem_args |-> rem,
          spawned |-> <<>>, lookups |-> <<>>, consumed |-> FALSE]
    ELSE consumed_result(
             process_and_consume_args_with_namespace(gs, argsgroup,
                                                     parsed.namespace),
             reg.options, parsed.rem_args)

parse_with_args(gs, options, rem, argsgroup, args, allow_abbrev) ==
    parse_registered(gs, add_children_args_to_parser(options, args),
                     parse_known_args(args, rem, allow_abbrev), rem,
                     argsgroup)

\* allow_abbrev is that of the parser the tokens are parsed with: the root
\* parser for the root, the group's own parser for every other group.
parse_and_consume(gs, options, rem, argsgroup, allow_abbrev) ==
    parse_with_args(gs, options, rem, argsgroup,
                    get_children_args(gs, argsgroup), allow_abbrev)

\* A faulty line 59: the root's spawned children are visited like those of
\* any other group.
RootSpawnedKept(spawned) == spawned

\* A faulty line 26: the spawned children are visited last one first.
SpawnedReversed(spawned) ==
    [i \in 1..Len(spawned) |-> spawned[Len(spawned) + 1 - i]]

\* What parse_args_recursively does with the list the root's consume returns
\* (line 59 drops it).
RootSpawnedToProcess(spawned) == <<>>

\* The list parse_and_process_argsgroup iterates after the consume (line 26).
SpawnedToProcess(spawned) == spawned

\* The list as it would be if it were captured before the root is consumed:
\* the traversal of the tree as constructed.
CapturedBeforeConsume(gs) ==
    get_all_children_argsgroup_bfs(Construct(<<>>, gs[root].cls), root)

\* The list of line 61, captured once.
CapturedList(gs) == get_all_children_argsgroup_bfs(gs, root)

\* No earlier instance resolved, no direct call made.
NoRun == [state |-> "NotStarted", error |-> NoErr, groups |-> <<>>]
NoProbe == [op |-> "none"]

Init ==
    /\ shape \in Shapes
    /\ parse_str \in TokenLists
    /\ groups = Construct(<<>>, "MainConfig")
    /\ parser_options = {}
    /\ rem_args = <<>>
    /\ state = "NotStarted"
    /\ error = NoErr
    /\ bfs_list = <<>>
    /\ bfs_index = 1
    /\ call_stack = <<>>
    /\ have_parsed_root_flag = FALSE
    /\ consume_log = <<>>
    /\ dd_lookups = <<>>
    /\ calls = 0
    /\ done_count = 0
    /\ instance = 1
    /\ first_run = NoRun
    /\ probe = NoProbe

\* The effect of one parse_and_consume on the state shared by all steps.
\* consume_log lists the calls of process_and_consume_args_with_namespace:
\* the group and the list of spawned children the call returned; dd_lookups
\* lists the evaluations of dynamic defaults.
Apply(r, g) ==
    /\ groups' = r.groups
    /\ parser_options' = r.options
    /\ rem_args' = r.rem_args
    /\ consume_log' = IF r.consumed
                      THEN Append(consume_log,
                                  [group |-> g, spawned |-> r.spawned])
                      ELSE consume_log
    /\ dd_lookups' = dd_lookups \o r.lookups
    /\ error' = r.err

\* parse_args_recursively, lines 49-59: the root is registered, parsed and
\* consumed.
ParseRoot ==
    /\ state = "NotStarted"
    /\ \E r \in {parse_and_consume(groups, parser_options, parse_str, root,
                                    FALSE)} :
           /\ Apply(r, root)
           /\ state' = IF r.err = NoErr THEN "RootBound" ELSE "Failed"
           /\ call_stack' = IF r.err = NoErr
                            THEN (IF RootSpawnedToProcess(r.spawned) = <<>>
                                  THEN <<>>
                                  ELSE <<RootSpawnedToProcess(r.spawned)>>)
                            ELSE call_stack
    /\ calls' = calls + 1
    /\ UNCHANGED <<shape, parse_str, bfs_list, bfs_index,
                   have_parsed_root_flag, done_count, outside>>

\* Line 61: the breadth-first list is computed.
CaptureBfs ==
    /\ state = "RootBound"
    /\ bfs_list' = CapturedList(groups)
    /\ bfs_index' = 1
    /\ state' = "ChildrenPending"
    /\ UNCHANGED <<shape, parse_str, groups, parser_options, rem_args, error,
                   call_stack, have_parsed_root_flag, consume_log,
                   dd_lookups, calls, done_count, outside>>

\* The loop as it would be if it caught the exception of a failing group and
\* went on with the next one.
ProcessNextContinuing ==
    /\ state = "ChildrenPending"
    /\ call_stack = <<>>
    /\ bfs_index <= Len(bfs_list)
    /\ \E r \in {parse_and_consume(groups, parser_options, rem_args,
                                    bfs_list[bfs_index], TRUE)} :
           /\ Apply(r, bfs_list[bfs_index])
           /\ call_stack' = IF r.err = NoErr
                            THEN <<SpawnedToProcess(r.spawned)>>
                            ELSE call_stack
    /\ bfs_index' = bfs_index + 1
    /\ UNCHANGED <<shape, parse_str, state, bfs_list, have_parsed_root_flag,
                   calls, done_count, outside>>

\* Lines 62-63: the loop calls parse_and_process_argsgroup on the next group
\* of the list.  The call's frame holds the spawned children it has still to
\* visit.
ProcessNext ==
    /\ state = "ChildrenPending"
    /\ call_stack = <<>>
    /\ bfs_index <= Len(bfs_list)
    /\ \E r \in {parse_and_consume(groups, parser_options, rem_args,
                                    bfs_list[bfs_index], TRUE)} :
           /\ Apply(r, bfs_list[bfs_index])
           /\ state' = IF r.err = NoErr THEN state ELSE "Failed"
           /\ call_stack' = IF r.err = NoErr
                            THEN <<SpawnedToProcess(r.spawned)>>
                            ELSE call_stack
    /\ bfs_index' = bfs_index + 1
    /\ UNCHANGED <<shape, parse_str, bfs_list, have_parsed_root_flag, calls,
                   done_count, outside>>

\* Lines 26-27: the innermost call recurses into its next spawned child.
ProcessSpawned ==
    /\ state = "ChildrenPending"
    /\ call_stack # <<>>
    /\ Head(call_stack) # <<>>
    /\ \E r \in {parse_and_consume(groups, parser_options, rem_args,
                                    Head(Head(call_stack)), TRUE)} :
           /\ Apply(r, Head(Head(call_stack)))
           /\ state' = IF r.err = NoErr THEN state ELSE "Failed"
           /\ call_stack' = IF r.err = NoErr
                            THEN <<SpawnedToProcess(r.spawned),
                                   Tail(Head(call_stack))>>
                                 \o Tail(call_stack)
                            ELSE call_stack
    /\ UNCHANGED <<shape, parse_str, bfs_list, bfs_index,
                   have_parsed_root_flag, calls, done_count, outside>>

\* A faulty line 29: the innermost call never returns.
ReturnNever ==
    /\ state = "ChildrenPending"
    /\ call_stack # <<>>
    /\ Head(call_stack) = <<>>
    /\ UNCHANGED vars

\* Line 29: the innermost call has visited all its spawned children and
\* returns rem_args.
Return ==
    /\ state = "ChildrenPending"
    /\ call_stack # <<>>
    /\ Head(call_stack) = <<>>
    /\ call_stack' = Tail(call_stack)
    /\ UNCHANGED <<shape, parse_str, groups, parser_options, rem_args, state,
                   error, bfs_list, bfs_index, have_parsed_root_flag,
                   consume_log, dd_lookups, calls, done_count, outside>>

\* Lines 65-69: after the loop, leftover tokens are an error; otherwise the
\* parser is done.
Finish ==
    /\ state = "ChildrenPending"
    /\ call_stack = <<>>
    /\ bfs_index > Len(bfs_list)
    /\ IF Len(rem_args) > 0
       THEN /\ state' = "Failed"
            /\ error' = "UnrecognizedTokensError"
            /\ UNCHANGED <<have_parsed_root_flag, done_count>>
       ELSE /\ state' = "Done"
            /\ have_parsed_root_flag' = TRUE
            /\ done_count' = done_count + 1
            /\ UNCHANGED error
    /\ UNCHANGED <<shape, parse_str, groups, parser_options, rem_args,
                   bfs_list, bfs_index, call_stack, consume_log, dd_lookups,
                   calls, outside>>

\* parse_args_recursively called again on the orchestrator that is Done: a
\* new root parser is built, the root is registered with it, the tokens are
\* parsed and the root is consumed (lines 49-59).
MaxCalls == 2

ParseAgain ==
    /\ state = "Done"
    /\ calls < MaxCalls
    /\ \E r \in {parse_and_consume(groups, {}, parse_str, root, FALSE)} :
           /\ Apply(r, root)
           /\ state' = IF r.err = NoErr THEN "RootBound" ELSE "Failed"
           /\ call_stack' = IF r.err = NoErr
                            THEN (IF RootSpawnedToProcess(r.spawned) = <<>>
                                  THEN <<>>
                                  ELSE <<RootSpawnedToProcess(r.spawned)>>)
                            ELSE call_stack
    /\ calls' = calls + 1
    /\ UNCHANGED <<shape, parse_str, bfs_list, bfs_index,
                   have_parsed_root_flag, done_count, outside>>

Next ==
    \/ ParseRoot
    \/ CaptureBfs
    \/ ProcessNext
    \/ ProcessSpawned
    \/ Return
    \/ Finish

Spec == Init /\ [][Next]_vars

\* One resolve run to its end.  The trees are those of Spec and the example
\* tree in which the spawned AnnealConfig spawns, by the default of its option, an AnnealConfig again.
InitLive ==
    /\ shape \in Shapes \cup {[BaseShape EXCEPT !.anneal_spawn = "self"]}
    /\ parse_str \in TokenLists
    /\ groups = Construct(<<>>, "MainConfig")
    /\ parser_options = {}
    /\ rem_args = <<>>
    /\ state = "NotStarted"
    /\ error = NoErr
    /\ bfs_list = <<>>
    /\ bfs_index = 1
    /\ call_stack = <<>>
    /\ have_parsed_root_flag = FALSE
    /\ consume_log = <<>>
    /\ dd_lookups = <<>>
    /\ calls = 0
    /\ done_count = 0
    /\ instance = 1
    /\ first_run = NoRun
    /\ probe = NoProbe

\* The statements run one after the other in a single thread: a step that
\* can be taken is taken.  For the three steps that run parse_and_consume,
\* on the root, on a group of the list or on a group of a frame, weak
\* fairness is written out with the condition under which the step is taken
\* in place of ENABLED.
Fairness ==
    /\ WF_vars(CaptureBfs)
    /\ WF_vars(Return)
    /\ WF_vars(Finish)
    /\ \/ []<>(state # "NotStarted")
       \/ []<><<ParseRoot>>_vars
    /\ \/ []<>~(/\ state = "ChildrenPending"
                /\ call_stack = <<>>
                /\ bfs_index <= Len(bfs_list))
       \/ []<><<ProcessNext>>_vars
    /\ \/ []<>~(/\ state = "ChildrenPending"
                /\ call_stack # <<>>
                /\ Head(call_stack) # <<>>)
       \/ []<><<ProcessSpawned>>_vars

SpecLive == InitLive /\ [][Next]_vars /\ Fairness

\* One resolve, and further calls of parse_args_recursively once it is Done.
NextAgain ==
    \/ Next
    \/ ParseAgain

SpecAgain == Init /\ [][NextAgain]_vars

(***************************************************************************)
(* A second tree and a second orchestrator, built once the first resolve   *)
(* has ended (test_constraints builds MainConfig() and ArgParser(args)     *)
(* twice), resolved against the same command line.  The option             *)
(* declarations are class attributes, the same for both trees; slots,      *)
(* flags and children belong to the instance.                              *)
(***************************************************************************)
MaxInstances == 2

\* A faulty construction: the tree of the first run is handed out again.
reused_instance(gs) == gs

\* MainConfig(): nothing of the heap gs of the earlier instance is part of
\* the new one.
fresh_instance(gs) == Construct(<<>>, "MainConfig")

Rebuild ==
    /\ state \in {"Done", "Failed"}
    /\ instance < MaxInstances
    /\ first_run' = [state |-> state, error |-> error, groups |-> groups]
    /\ instance' = instance + 1
    /\ groups' = fresh_instance(groups)
    /\ parser_options' = {}
    /\ rem_args' = <<>>
    /\ state' = "NotStarted"
    /\ error' = NoErr
    /\ bfs_list' = <<>>
    /\ bfs_index' = 1
    /\ call_stack' = <<>>
    /\ have_parsed_root_flag' = FALSE
    /\ consume_log' = <<>>
    /\ dd_lookups' = <<>>
    /\ calls' = 0
    /\ done_count' = 0
    /\ UNCHANGED <<shape, parse_str, probe>>

NextTwice ==
    \/ Next
    \/ Rebuild

SpecTwice == Init /\ [][NextTwice]_vars

(***************************************************************************)
(* process_and_consume_args_with_namespace called directly on the groups   *)
(* of a freshly built tree, in any order, with the namespace the group's   *)
(* parser yields for an empty command line and with namespaces holding one *)
(* more entry, for a name that is no option of the group.                  *)
(***************************************************************************)
MaxConsumeCalls == 2

DefaultNamespace(args) ==
    [i \in DOMAIN args |-> <<args[i].name, args[i].default>>]
InsertAt(namespace, k, entry) ==
    SubSeq(namespace, 1, k) \o <<entry>>
        \o SubSeq(namespace, k + 1, Len(namespace))
StrayEntry == <<"bogus", StrV("1")>>
NamespacesOf(namespace) ==
    {namespace}
        \cup {InsertAt(namespace, k, StrayEntry) : k \in 0..Len(namespace)}
NamespaceInputs(gs, g) == NamespacesOf(DefaultNamespace(get_children_args(gs, g)))

\* probe keeps the call: the group, the namespace, the heap before the call,
\* the error raised and the list returned.
ConsumeCall ==
    /\ calls < MaxConsumeCalls
    /\ \E g \in DOMAIN groups :
           \E namespace \in NamespaceInputs(groups, g) :
               \E r \in {process_and_consume_args_with_namespace(
                              groups, g, namespace)} :
                   /\ groups' = r.groups
                   /\ probe' = [op |-> "consume", group |-> g,
                                namespace |-> namespace, before |-> groups,
                                err |-> r.err, spawned |-> r.spawned]
    /\ calls' = calls + 1
    /\ UNCHANGED <<shape, parser_options, rem_args, state, error, bfs_list,
                   bfs_index, call_stack, have_parsed_root_flag, consume_log,
                   dd_lookups, parse_str, done_count, instance, first_run>>

InitConsume ==
    /\ shape \in Shapes
    /\ parse_str = <<>>
    /\ groups = Construct(<<>>, "MainConfig")
    /\ parser_options = {}
    /\ rem_args = <<>>
    /\ state = "NotStarted"
    /\ error = NoErr
    /\ bfs_list = <<>>
    /\ bfs_index = 1
    /\ call_stack = <<>>
    /\ have_parsed_root_flag = FALSE
    /\ consume_log = <<>>
    /\ dd_lookups = <<>>
    /\ calls = 0
    /\ done_count = 0
    /\ instance = 1
    /\ first_run = NoRun
    /\ probe = NoProbe

SpecConsume == InitConsume /\ [][ConsumeCall]_vars

\* The same calls on a freshly built AdvConfig, whose consume spawns an
\* AdvAConfig and then an AdvBConfig, for each field_name AdvBConfig may
\* pass to ArgsGroup.__init__: a fresh name, the name of the child spawned
\* before it, of the static child, of an option, or none.
InitSpawn ==
    /\ shape \in {[BaseShape EXCEPT !.adv_b_field = f] :
                      f \in {"adv_b", "adv_a", "adv_sub", "adv_first",
                             "adv_second", NoFieldName}}
    /\ parse_str = <<>>
    /\ groups = Construct(<<>>, "AdvConfig")
    /\ parser_options = {}
    /\ rem_args = <<>>
    /\ state = "NotStarted"
    /\ error = NoErr
    /\ bfs_list = <<>>
    /\ bfs_index = 1
    /\ call_stack = <<>>
    /\ have_parsed_root_flag = FALSE
    /\ consume_log = <<>>
    /\ dd_lookups = <<>>
    /\ calls = 0
    /\ done_count = 0
    /\ instance = 1
    /\ first_run = NoRun
    /\ probe = NoProbe

SpecSpawn == InitSpawn /\ [][ConsumeCall]_vars

(***************************************************************************)
(* consume with values for some of the declared options only, and          *)
(* set_children_args_to_default_values, called directly on the groups of a *)
(* freshly built tree, in any order.                                       *)
(***************************************************************************)
\* set_children_args_to_default_values, lines 105-108: each remaining Arg is
\* replaced by its default, passed through the Arg's type when it is an
\* instance of it.  items is the list of <<field, <<"arg", Arg>> >> taken
\* before the loop.
RECURSIVE set_defaults_from(_, _, _, _)
set_defaults_from(gs, self, items, i) ==
    IF i > Len(items) THEN gs
    ELSE set_defaults_from(
             ArgsGroup_setattr(
                 gs, self, items[i][1],
                 <<"val",
                   IF py_isinstance(items[i][2][2].default,
                                    items[i][2][2].type)
                   THEN py_construct(items[i][2][2].type,
                                     items[i][2][2].default).val
                   ELSE items[i][2][2].default>>).groups,
             self, items, i + 1)

\* A faulty set_children_args_to_default_values: the group is also marked
\* as parsed.
set_defaults_and_mark(gs, self) ==
    mark_self_as_parsed(
        set_defaults_from(gs, self, SelectArgs(gs[self].slots), 1), self)

set_children_args_to_default_values(gs, self) ==
    set_defaults_from(gs, self, SelectArgs(gs[self].slots), 1)

\* The namespaces holding some of the entries of namespace, in its order.
SubNamespaces(namespace) ==
    {[k \in 1..Cardinality(S) |->
         namespace[CHOOSE i \in S : Cardinality({j \in S : j < i}) = k - 1]] :
        S \in SUBSET DOMAIN namespace}

ConsumeSome ==
    /\ calls < MaxConsumeCalls
    /\ \E g \in DOMAIN groups :
           \E namespace \in SubNamespaces(
                                DefaultNamespace(get_children_args(groups, g))) :
               \E r \in {process_and_consume_args_with_namespace(
                              groups, g, namespace)} :
                   /\ groups' = r.groups
                   /\ probe' = [op |-> "consume", group |-> g,
                                namespace |-> namespace, before |-> groups,
                                err |-> r.err, spawned |-> r.spawned]
    /\ calls' = calls + 1
    /\ UNCHANGED <<shape, parser_options, rem_args, state, error, bfs_list,
                   bfs_index, call_stack, have_parsed_root_flag, consume_log,
                   dd_lookups, parse_str, done_count, instance, first_run>>

FillDefaults ==
    /\ calls < MaxConsumeCalls
    /\ \E g \in DOMAIN groups :
           /\ groups' = set_children_args_to_default_values(groups, g)
           /\ probe' = [op |-> "fill", group |-> g, namespace |-> <<>>,
                        before |-> groups, err |-> NoErr, spawned |-> <<>>]
    /\ calls' = calls + 1
    /\ UNCHANGED <<shape, parser_options, rem_args, state, error, bfs_list,
                   bfs_index, call_stack, have_parsed_root_flag, consume_log,
                   dd_lookups, parse_str, done_count, instance, first_run>>

NextFill ==
    \/ ConsumeSome
    \/ FillDefaults

SpecFill == InitConsume /\ [][NextFill]_vars

(***************************************************************************)
(* The group API used directly: groups are constructed, assigned to        *)
(* attributes of one another (ArgsGroup.__setattr__), consumed with the    *)
(* namespace of an empty command line, which spawns their children, and    *)
(* asked for a field of their tree.  An assertion that fails ends the      *)
(* script: probe keeps the error.                                          *)
(***************************************************************************)
MaxGroups == 4
MaxApiCalls == 2
MaxLookups == 2
NoLookup == [group |-> NoGroup]

\* The parent links of the heap end: get_root_argsgroup and the traversals
\* return.
RECURSIVE nth_parent(_, _, _)
nth_parent(gs, g, n) ==
    IF n = 0 \/ g = NoGroup THEN g
    ELSE nth_parent(gs, gs[g].group_parent, n - 1)
acyclic(gs) == \A g \in DOMAIN gs : nth_parent(gs, g, Len(gs)) = NoGroup

BuildGroup ==
    /\ probe.err = NoErr
    /\ \E cls \in {"AdvSubConfig", "AdvConfig"} :
           /\ Len(Construct(groups, cls)) <= MaxGroups
           /\ groups' = Construct(groups, cls)
    /\ probe' = [probe EXCEPT !.lookup = NoLookup]
    /\ UNCHANGED <<shape, parser_options, rem_args, state, error, bfs_list,
                   bfs_index, call_stack, have_parsed_root_flag, consume_log,
                   dd_lookups, parse_str, calls, done_count, instance,
                   first_run>>

\* setattr(self, name, value) with value a group
AssignGroup ==
    /\ probe.err = NoErr
    /\ calls < MaxApiCalls
    /\ calls' = calls + 1
    /\ \E self \in DOMAIN groups, value \in DOMAIN groups :
           \E name \in {"left", "right"} :
               \E r \in {ArgsGroup_setattr(groups, self, name,
                                            <<"grp", value>>)} :
                   /\ groups' = r.groups
                   /\ probe' = [probe EXCEPT !.err = r.err,
                                           !.lookup = NoLookup]
    /\ UNCHANGED <<shape, parser_options, rem_args, state, error, bfs_list,
                   bfs_index, call_stack, have_parsed_root_flag, consume_log,
                   dd_lookups, parse_str, done_count, instance, first_run>>

SpawnGroup ==
    /\ probe.err = NoErr
    /\ \E g \in DOMAIN groups :
           \E r \in {process_and_consume_args_with_namespace(
                          groups, g,
                          DefaultNamespace(get_children_args(groups, g)))} :
               /\ Len(r.groups) <= MaxGroups
               /\ groups' = r.groups
               /\ probe' = [probe EXCEPT !.err = r.err, !.lookup = NoLookup]
    /\ UNCHANGED <<shape, parser_options, rem_args, state, error, bfs_list,
                   bfs_index, call_stack, have_parsed_root_flag, consume_log,
                   dd_lookups, parse_str, calls, done_count, instance,
                   first_run>>

\* self.get_value_from_field_in_tree(field), on a heap whose parent links
\* end.  probe keeps the call and what it returned or raised.
LookupField ==
    /\ probe.err = NoErr
    /\ probe.looked < MaxLookups
    /\ acyclic(groups)
    /\ \E self \in DOMAIN groups :
           \E field \in {"adv_first", "adv_opt", "adv_sub", "missing"} :
               \E r \in {get_value_from_field_in_tree(groups, self,
                                                       field)} :
                   /\ groups' = r.groups
                   /\ probe' = [probe EXCEPT
                                    !.err = r.err,
                                    !.looked = @ + 1,
                                    !.lookup = [group |-> self,
                                                field |-> field,
                                                err |-> r.err,
                                                val |-> r.val]]
    /\ UNCHANGED <<shape, parser_options, rem_args, state, error, bfs_list,
                   bfs_index, call_stack, have_parsed_root_flag, consume_log,
                   dd_lookups, parse_str, calls, done_count, instance,
                   first_run>>

InitForest ==
    /\ probe = [op |-> "forest", err |-> NoErr, looked |-> 0,
                lookup |-> NoLookup]
    /\ shape = BaseShape
    /\ parse_str = <<>>
    /\ groups = <<>>
    /\ parser_options = {}
    /\ rem_args = <<>>
    /\ state = "NotStarted"
    /\ error = NoErr
    /\ bfs_list = <<>>
    /\ bfs_index = 1
    /\ call_stack = <<>>
    /\ have_parsed_root_flag = FALSE
    /\ consume_log = <<>>
    /\ dd_lookups = <<>>
    /\ calls = 0
    /\ done_count = 0
    /\ instance = 1
    /\ first_run = NoRun

NextForest ==
    \/ BuildGroup
    \/ AssignGroup
    \/ SpawnGroup
    \/ LookupField

SpecForest == InitForest /\ [][NextForest]_vars

(***************************************************************************)
(* Arg.sanitize_value_for_consumption called directly: probe holds the     *)
(* option, the raw value and, once the call is made, its outcome.          *)
(***************************************************************************)
SanitizeArgs ==
    {Arg_post_init(ArgDecl("split", "str", StrV("val"), "store",
                           StrChoices({"train", "val"}), NoChecker, NoDict,
                           {})),
     Arg_post_init(ArgDecl("level", "int", IntV(1), "store",
                           {IntV(1), IntV(2)}, NoChecker, NoDict, {})),
     Arg_post_init(ArgDecl("depth", "int", IntV(1), "store",
                           {IntV(1), IntV(2)},
                           LowerBoundChecker(1, TRUE), NoDict, {})),
     Arg_post_init(ArgDecl("log_every", "int", IntV(50), "store", NoChoices,
                           LowerBoundChecker(0, TRUE), NoDict, {})),
     Arg_post_init(ArgDecl("tag", "str", StrV("x"), "store", {}, NoChecker,
                           NoDict, {}))}

RawValues ==
    {None, StrV("train"), StrV("val"), StrV("test"), StrV("1"), StrV("-1"),
     StrV("abc"), IntV(-1), IntV(1), IntV(2), IntV(5), BoolV(TRUE)}

SanitizeCall ==
    /\ probe.op = "sanitize"
    /\ ~probe.done
    /\ \E r \in {sanitize_value_for_consumption(probe.arg, probe.value)} :
           probe' = [probe EXCEPT !.done = TRUE, !.err = r.err,
                                   !.val = r.val]
    /\ UNCHANGED <<shape, groups, parser_options, rem_args, state, error,
                   bfs_list, bfs_index, call_stack, have_parsed_root_flag,
                   consume_log, dd_lookups, parse_str, calls, done_count,
                   instance, first_run>>

InitSanitize ==
    /\ probe \in [op : {"sanitize"}, arg : SanitizeArgs, value : RawValues,
                   done : {FALSE}, err : {NoErr}, val : {None}]
    /\ shape = BaseShape
    /\ parse_str = <<>>
    /\ groups = <<>>
    /\ parser_options = {}
    /\ rem_args = <<>>
    /\ state = "NotStarted"
    /\ error = NoErr
    /\ bfs_list = <<>>
    /\ bfs_index = 1
    /\ call_stack = <<>>
    /\ have_parsed_root_flag = FALSE
    /\ consume_log = <<>>
    /\ dd_lookups = <<>>
    /\ calls = 0
    /\ done_count = 0
    /\ instance = 1
    /\ first_run = NoRun

SpecSanitize == InitSanitize /\ [][SanitizeCall]_vars

(***************************************************************************)
(* The constraint checkers used directly: probe holds the list of bound    *)
(* checkers and the value, then the composite built from the list, the     *)
(* outcome of calling it on the value and the outcomes of calling each     *)
(* checker of the list on the value.                                       *)
(***************************************************************************)
MaxCheckers == 3
BoundValues == {1, 2, 3}
CheckedValues == {IntV(n) : n \in 0..4}

BoundCheckers ==
    {LowerBoundChecker(b, st) : b \in BoundValues, st \in BOOLEAN}
    \cup {UpperBoundChecker(b, st) : b \in BoundValues, st \in BOOLEAN}

CheckerLists ==
    UNION {[1..n -> BoundCheckers] : n \in 1..MaxCheckers}

NoOutcome == [err |-> "NotCalled", val |-> None]

\* CompositeConstraintChecker(checkers)
Compose ==
    /\ probe.op = "checkers"
    /\ probe.stage = "new"
    /\ \E r \in {composite_init(probe.checkers)} :
           probe' = [probe EXCEPT !.stage = "composed", !.built = r]
    /\ UNCHANGED <<shape, groups, parser_options, rem_args, state, error,
                   bfs_list, bfs_index, call_stack, have_parsed_root_flag,
                   consume_log, dd_lookups, parse_str, calls, done_count,
                   instance, first_run>>

\* composite(value)
CallComposite ==
    /\ probe.op = "checkers"
    /\ probe.stage = "composed"
    /\ probe.built.err = NoErr
    /\ \E r \in {composite_call(probe.built.checkers, probe.value)} :
           probe' = [probe EXCEPT !.stage = "called", !.result = r]
    /\ UNCHANGED <<shape, groups, parser_options, rem_args, state, error,
                   bfs_list, bfs_index, call_stack, have_parsed_root_flag,
                   consume_log, dd_lookups, parse_str, calls, done_count,
                   instance, first_run>>

\* checker(value) for each checker of the list
CallComponents ==
    /\ probe.op = "checkers"
    /\ probe.singles = <<>>
    /\ probe' = [probe EXCEPT !.singles =
                     [i \in DOMAIN probe.checkers |->
                         component_result(probe.checkers[i], probe.value)]]
    /\ UNCHANGED <<shape, groups, parser_options, rem_args, state, error,
                   bfs_list, bfs_index, call_stack, have_parsed_root_flag,
                   consume_log, dd_lookups, parse_str, calls, done_count,
                   instance, first_run>>

InitCheckers ==
    /\ probe \in [op : {"checkers"}, checkers : CheckerLists,
                   value : CheckedValues, stage : {"new"},
                   built : {[err |-> NoErr, checkers |-> <<>>]},
                   result : {NoOutcome}, singles : {<<>>}]
    /\ shape = BaseShape
    /\ parse_str = <<>>
    /\ groups = <<>>
    /\ parser_options = {}
    /\ rem_args = <<>>
    /\ state = "NotStarted"
    /\ error = NoErr
    /\ bfs_list = <<>>
    /\ bfs_index = 1
    /\ call_stack = <<>>
    /\ have_parsed_root_flag = FALSE
    /\ consume_log = <<>>
    /\ dd_lookups = <<>>
    /\ calls = 0
    /\ done_count = 0
    /\ instance = 1
    /\ first_run = NoRun

NextCheckers ==
    \/ Compose
    \/ CallComposite
    \/ CallComponents

SpecCheckers == InitCheckers /\ [][NextCheckers]_vars

(***************************************************************************)
(* Composites of composites: the list given to the outer composite holds   *)
(* one successfully constructed composite, alone or next to bound          *)
(* checkers, at either end of the list.                                    *)
(***************************************************************************)
BuiltComposites ==
    {CompositeConstraintChecker(composite_init(cs).checkers) :
        cs \in {l \in CheckerLists : /\ Len(l) < MaxCheckers
                                     /\ composite_init(l).err = NoErr}}

NestedLists ==
    {pre \o <<c>> \o post :
        c \in BuiltComposites,
        pre \in {<<>>} \cup {<<b>> : b \in BoundCheckers},
        post \in {<<>>} \cup {<<b>> : b \in BoundCheckers}}

InitNested ==
    /\ probe \in [op : {"checkers"}, checkers : NestedLists,
                   value : CheckedValues, stage : {"new"},
                   built : {[err |-> NoErr, checkers |-> <<>>]},
                   result : {NoOutcome}, singles : {<<>>}]
    /\ shape = BaseShape
    /\ parse_str = <<>>
    /\ groups = <<>>
    /\ parser_options = {}
    /\ rem_args = <<>>
    /\ state = "NotStarted"
    /\ error = NoErr
    /\ bfs_list = <<>>
    /\ bfs_index = 1
    /\ call_stack = <<>>
    /\ have_parsed_root_flag = FALSE
    /\ consume_log = <<>>
    /\ dd_lookups = <<>>
    /\ calls = 0
    /\ done_count = 0
    /\ instance = 1
    /\ first_run = NoRun

SpecNested == InitNested /\ [][NextCheckers]_vars

(***************************************************************************)
(* Properties.  consume_log and dd_lookups are the history the properties   *)
(* are stated on; the declarations of a group are read off its class body.  *)
(***************************************************************************)
SeqSet(s) == {s[i] : i \in DOMAIN s}
NoDuplicates(s) == \A i, j \in DOMAIN s : s[i] = s[j] => i = j
IsPrefix(s, t) == Len(s) <= Len(t) /\ \A i \in DOMAIN s : s[i] = t[i]

\* The groups on which consume was called, in call order.
ConsumeOrder == [i \in DOMAIN consume_log |-> consume_log[i].group]

\* The root followed by its descendants, depth-first; the groups reachable
\* from the root.
TreeOrder == <<root>> \o get_all_children_argsgroup_dfs(groups, root)
Reachable == SeqSet(TreeOrder)

HasSlot(g, name) == name \in SlotNames(groups[g].slots)
SlotContent(g, name) == groups[g].slots[SlotIndex(groups[g].slots, name)][2]
HoldsDeclaration(g) ==
    \E i \in DOMAIN groups[g].slots : groups[g].slots[i][2][1] = "arg"

\* The list of spawned children the consume of g returned.
ReturnedSpawns(g) ==
    IF \E i \in DOMAIN consume_log : consume_log[i].group = g
    THEN consume_log[CHOOSE i \in DOMAIN consume_log :
                         consume_log[i].group = g].spawned
    ELSE <<>>

\* g, then the groups g spawned, each followed by what it spawned in turn.
RECURSIVE InlineOrder(_)
RECURSIVE InlineOrderOfList(_, _)
InlineOrder(g) == <<g>> \o InlineOrderOfList(ReturnedSpawns(g), 1)
InlineOrderOfList(list, i) ==
    IF i > Len(list) THEN <<>>
    ELSE InlineOrder(list[i]) \o InlineOrderOfList(list, i + 1)

\* The order of consumption the captured list and the spawns seen so far fix.
ExpectedOrder == <<root>> \o InlineOrderOfList(bfs_list, 1)

\* The children spawned by the consume of a group other than the root.
LoopSpawned ==
    UNION {SeqSet(consume_log[i].spawned) :
              i \in {j \in DOMAIN consume_log : consume_log[j].group # root}}

\* The Arg declarations of the class of g as written, in declaration order,
\* and those carrying a dynamic_defaults_dict.
DeclarationsOf(body) ==
    [i \in DOMAIN SelectArgs(body) |-> SelectArgs(body)[i][2][2]]
Declarations(g) == DeclarationsOf(ClassBody(groups[g].cls))
DynamicDeclarations(g) ==
    SelectSeq(Declarations(g), LAMBDA d : d.dynamic_defaults_dict # NoDict)
DeclaresOption(g, name) ==
    \E k \in DOMAIN Declarations(g) : Declarations(g)[k].name = name
DeclNamed(g, name) ==
    Declarations(g)[CHOOSE k \in DOMAIN Declarations(g) :
                        Declarations(g)[k].name = name]

\* The tokens of the command line that name an option, and the value the
\* last of them gives it.
ExplicitToken(name) == \E i \in DOMAIN parse_str : parse_str[i].name = name
LastTokenVal(name) ==
    parse_str[CHOOSE i \in DOMAIN parse_str :
                  /\ parse_str[i].name = name
                  /\ \A j \in DOMAIN parse_str :
                         parse_str[j].name = name => j <= i].val
ExplicitValue(decl) ==
    IF decl.action = "store_true" THEN BoolV(TRUE)
    ELSE IF decl.type = "int" THEN IntV(IntOfStr(LastTokenVal(decl.name)))
    ELSE StrV(LastTokenVal(decl.name))

\* What a Dynamic Default Specification yields for the governing value gv:
\* the entry of the nested dictionary for gv and the option, else the default
\* the option was declared with.
ValueMapRows(decl) ==
    {r \in decl.dynamic_defaults_dict.rows : r[2] = decl.name}
ExpectedDefault(decl, gv) ==
    IF \E r \in ValueMapRows(decl) : r[1] = gv
    THEN (CHOOSE r \in ValueMapRows(decl) : r[1] = gv)[3]
    ELSE decl.default

\* The slots named name that hold no group, over the reachable groups.
SlotOwners(name) ==
    {h \in Reachable : HasSlot(h, name) /\ SlotContent(h, name)[1] # "grp"}
ResolvedValuesOf(name) ==
    {SlotContent(h, name)[2] :
        h \in {o \in SlotOwners(name) : SlotContent(o, name)[1] = "val"}}

\* The group whose slot a tree-wide lookup of name returns: the last one in
\* depth-first order.
OwnerIndexes(name) ==
    {i \in DOMAIN TreeOrder : TreeOrder[i] \in SlotOwners(name)}
LookupOwner(name) ==
    TreeOrder[CHOOSE i \in OwnerIndexes(name) :
                  \A j \in OwnerIndexes(name) : j <= i]

ConsumedBefore(a, b) ==
    \E i, j \in DOMAIN ConsumeOrder :
        i < j /\ ConsumeOrder[i] = a /\ ConsumeOrder[j] = b

\* For the option D of group g governed by field F: F is declared strictly
\* after D (later in g, or as an option of a group not consumed before g),
\* respectively before D (earlier in g, or in a group consumed before g).
GoverningField(g, D) == DeclNamed(g, D).dynamic_defaults_dict.field
SlotBefore(g, a, b) ==
    SlotIndex(groups[g].slots, a) < SlotIndex(groups[g].slots, b)
DeclaredAfterIn(o, g, F, D) ==
    /\ DeclaresOption(o, F)
    /\ \/ o = g /\ SlotBefore(g, D, F)
       \/ o # g /\ ~ConsumedBefore(o, g)
DeclaredBeforeIn(o, g, F, D) ==
    \/ o = g /\ SlotBefore(g, F, D)
    \/ o # g /\ ConsumedBefore(o, g)
DeclaredAfter(g, D) ==
    /\ OwnerIndexes(GoverningField(g, D)) # {}
    /\ DeclaredAfterIn(LookupOwner(GoverningField(g, D)), g,
                       GoverningField(g, D), D)
DeclaredBefore(g, D) ==
    /\ OwnerIndexes(GoverningField(g, D)) # {}
    /\ DeclaredBeforeIn(LookupOwner(GoverningField(g, D)), g,
                        GoverningField(g, D), D)

\* Every group of the captured list and every spawned subtree is consumed.
TraversalComplete ==
    /\ bfs_index > Len(bfs_list)
    /\ call_stack = <<>>
    /\ ConsumeOrder = ExpectedOrder
    /\ \A i \in DOMAIN ConsumeOrder : groups[ConsumeOrder[i]].args_are_consumed

\* C1 as claimed: when resolve is Done, every group reachable from the root
\* is marked resolved and none of its slots holds an Option Declaration,
\* spawned groups and the static children they bring included.
C1_DoneAllResolved ==
    state = "Done" =>
        \A g \in Reachable :
            groups[g].args_are_consumed /\ ~HoldsDeclaration(g)

\* C2: the groups are consumed root first, then the captured breadth-first
\* list in order, each group followed at once by the groups it spawned (each
\* with what it spawns in turn) in the order of the spawns; at Done nothing of
\* that order is missing.
C2_ConsumeOrder ==
    /\ IsPrefix(ConsumeOrder, ExpectedOrder)
    /\ state = "Done" => ConsumeOrder = ExpectedOrder

C2_Witness ==
    /\ state = "Done"
    /\ \E i \in DOMAIN consume_log :
           /\ consume_log[i].group # root
           /\ Len(consume_log[i].spawned) = 2

\* C3: consume is called at most once on each group, a group spawned during
\* the loop is not in the captured list, and the traversal never meets
\* AlreadyConsumedError.
C3_ConsumedOnce ==
    /\ NoDuplicates(ConsumeOrder)
    /\ LoopSpawned \cap SeqSet(bfs_list) = {}
    /\ error # "AlreadyConsumedError"

C3_Witness ==
    /\ state = "Done"
    /\ ReturnedSpawns(root) # <<>>
    /\ LoopSpawned # {}

\* The declarations of a consumed group g whose resolved value is a key of
\* their children_args.
Spawning(g, d) ==
    /\ HasSlot(g, d.name)
    /\ SlotContent(g, d.name)[1] = "val"
    /\ SlotContent(g, d.name)[2] \in MapKeys(d.children_args)
SpawningDeclarations(g) ==
    SelectSeq(Declarations(g), LAMBDA d : Spawning(g, d))
SpawnedClass(g, d) == MapGet(d.children_args, SlotContent(g, d.name)[2])

\* What the k-th spawning declaration d of g has added: the child sp.
SpawnedFor(g, d, sp) ==
    /\ groups[sp].cls = SpawnedClass(g, d)
    /\ groups[sp].group_parent = g
    /\ groups[sp].field_name # NoFieldName
    /\ HasSlot(g, groups[sp].field_name)
    /\ SlotContent(g, groups[sp].field_name) = <<"grp", sp>>

StaticsThenSpawned(g, statics, sp) ==
    /\ groups[g].children_argsgroup
           = SubSeq(groups[g].children_argsgroup, 1, Len(statics)) \o sp
    /\ \A k \in DOMAIN statics :
           groups[groups[g].children_argsgroup[k]].cls = statics[k][2]

SpawnsMatch(g, decls, sp) ==
    /\ Len(sp) = Len(decls)
    /\ NoDuplicates(sp)
    /\ \A k \in DOMAIN sp \cap DOMAIN decls : SpawnedFor(g, decls[k], sp[k])

\* C4: a consumed group has, for each option whose resolved value is a key of
\* its spawn map, exactly one spawned child, of the class the map names,
\* appended after the earlier children, held in the slot its field_name names,
\* with the group as parent and listed in the returned list, in option order;
\* the other options add no child.
C4_SpawnPerKey ==
    \A g \in DOMAIN groups :
        groups[g].args_are_consumed =>
            /\ SpawnsMatch(g, SpawningDeclarations(g), ReturnedSpawns(g))
            /\ StaticsThenSpawned(g, ClassStatics(groups[g].cls),
                                  ReturnedSpawns(g))

C4_Witness ==
    /\ state = "Done"
    /\ ~ExplicitToken("model")
    /\ \E g \in Reachable :
           groups[g].cls = "GPTBaseConfigs" /\ groups[g].args_are_consumed
    /\ \E g \in Reachable :
           groups[g].cls = "ModelConfig" /\ ReturnedSpawns(g) # <<>>

Resolved(g, name) == HasSlot(g, name) /\ SlotContent(g, name)[1] = "val"
Evaluated(g, name) ==
    \E i \in DOMAIN dd_lookups :
        dd_lookups[i].group = g /\ dd_lookups[i].field = name

FollowsSpecification(r) ==
    (r.err = NoErr /\ Resolved(r.group, r.field)) =>
        /\ r.governing \in ResolvedValuesOf(GoverningField(r.group, r.field))
        /\ SlotContent(r.group, r.field)[2]
               = ExpectedDefault(DeclNamed(r.group, r.field), r.governing)

\* C5: an option with a Dynamic Default Specification and no explicit value
\* has its default evaluated, and resolves to the entry of the value map for
\* the resolved value g of the governing field when there is one, else to the
\* default it was declared with.
C5_DynamicDefaultValue ==
    /\ \A i \in DOMAIN dd_lookups : FollowsSpecification(dd_lookups[i])
    /\ \A g \in DOMAIN groups :
           groups[g].args_are_consumed =>
               \A k \in DOMAIN DynamicDeclarations(g) :
                   ~ExplicitToken(DynamicDeclarations(g)[k].name) =>
                       Evaluated(g, DynamicDeclarations(g)[k].name)

C5_Witness ==
    /\ state = "Done"
    /\ \E i, j \in DOMAIN dd_lookups :
           /\ dd_lookups[i].err = NoErr
           /\ dd_lookups[j].err = NoErr
           /\ \E r \in ValueMapRows(DeclNamed(dd_lookups[i].group,
                                              dd_lookups[i].field)) :
                  r[1] = dd_lookups[i].governing
           /\ ~\E r \in ValueMapRows(DeclNamed(dd_lookups[j].group,
                                               dd_lookups[j].field)) :
                   r[1] = dd_lookups[j].governing

\* The chain of the example: scheduler for a dataset, and
\* scheduler_step_every for a scheduler.
SchedulerFor(dataset) ==
    CASE dataset = StrV("sst2") -> StrV("linear")
      [] dataset = StrV("wikitext") -> StrV("one_cycle")
      [] OTHER -> None
StepEveryFor(scheduler) ==
    CASE scheduler = StrV("reduce_lr_on_plateau") -> StrV("epoch")
      [] OTHER -> StrV("batch")

UsesResolvedValue(r) ==
    (r.err = NoErr
       /\ Cardinality(SlotOwners(GoverningField(r.group, r.field))) = 1) =>
        \A h \in SlotOwners(GoverningField(r.group, r.field)) :
            SlotContent(h, GoverningField(r.group, r.field))
                = <<"val", r.governing>>

SchedulerChain(g) ==
    /\ ExplicitToken("scheduler") =>
           SlotContent(g, "scheduler")
               = <<"val", StrV(LastTokenVal("scheduler"))>>
    /\ (~ExplicitToken("scheduler")
          /\ Cardinality(SlotOwners("dataset")) = 1) =>
           \A h \in SlotOwners("dataset") :
               SlotContent(g, "scheduler")[2]
                   = SchedulerFor(SlotContent(h, "dataset")[2])
    /\ ~ExplicitToken("scheduler_step_every") =>
           SlotContent(g, "scheduler_step_every")[2]
               = StepEveryFor(SlotContent(g, "scheduler")[2])

\* C6: the governing value a dynamic default is computed from is the value
\* the governing field has resolved to, explicit or itself computed: in the
\* chain dataset -> scheduler -> scheduler_step_every the last follows the
\* scheduler actually resolved, an explicit scheduler included.
C6_GoverningValueIsResolved ==
    /\ \A i \in DOMAIN dd_lookups : UsesResolvedValue(dd_lookups[i])
    /\ \A g \in DOMAIN groups :
           (groups[g].cls = "SchedulerConfig" /\ groups[g].args_are_consumed)
               => SchedulerChain(g)

C6_Witness ==
    /\ state = "Done"
    /\ ~ExplicitToken("scheduler_step_every")
    /\ ExplicitToken("scheduler")
    /\ \E g \in Reachable :
           /\ groups[g].cls = "SchedulerConfig"
           /\ SlotContent(g, "scheduler")
                  = <<"val", StrV("reduce_lr_on_plateau")>>
           /\ SlotContent(g, "scheduler_step_every")
                  = <<"val", StrV("epoch")>>

\* C7: an option with a Dynamic Default Specification that a token gives a
\* value resolves to that value sanitized, and its specification is not
\* evaluated: no lookup of the governing field is made for it.
C7_ExplicitOverridesDynamic ==
    /\ \A i \in DOMAIN dd_lookups : ~ExplicitToken(dd_lookups[i].field)
    /\ \A g \in DOMAIN groups :
           groups[g].args_are_consumed =>
               \A k \in DOMAIN DynamicDeclarations(g) :
                   ExplicitToken(DynamicDeclarations(g)[k].name) =>
                       SlotContent(g, DynamicDeclarations(g)[k].name)
                           = <<"val", ExplicitValue(DynamicDeclarations(g)[k])>>

C7_Witness ==
    /\ state = "Done"
    /\ \E g \in Reachable :
           /\ groups[g].args_are_consumed
           /\ \E k \in DOMAIN DynamicDeclarations(g) :
                  ExplicitToken(DynamicDeclarations(g)[k].name)

\* C8 as claimed: a tree in which the governing field F of an option D is
\* declared strictly after D is never resolved to Done (resolve raises
\* OrderingError).
C8_DeclaredAfterNeverDone ==
    state = "Done" =>
        \A g \in Reachable :
            \A k \in DOMAIN DynamicDeclarations(g) :
                ~DeclaredAfter(g, DynamicDeclarations(g)[k].name)

\* C8 amended: when the dynamic default of D is evaluated (D has no explicit
\* value) while its governing field F is declared strictly after D, the
\* evaluation raises OrderingError and resolve fails with it there; a tree
\* with F declared after D reaches Done only when D was given explicitly.
C8_EvaluatedAfterRaises ==
    /\ \A i \in DOMAIN dd_lookups :
           DeclaredAfter(dd_lookups[i].group, dd_lookups[i].field) =>
               /\ dd_lookups[i].err = "OrderingError"
               /\ i = Len(dd_lookups)
               /\ state = "Failed"
               /\ error = "OrderingError"
    /\ state = "Done" =>
           \A g \in Reachable :
               \A k \in DOMAIN DynamicDeclarations(g) :
                   DeclaredAfter(g, DynamicDeclarations(g)[k].name) =>
                       ExplicitToken(DynamicDeclarations(g)[k].name)

C8_Witness ==
    /\ state = "Failed"
    /\ error = "OrderingError"
    /\ \E i \in DOMAIN dd_lookups :
           DeclaredAfter(dd_lookups[i].group, dd_lookups[i].field)

\* C9: when the governing field is declared in a group consumed before the
\* dependent option's group, or earlier in the same group, the evaluation of
\* the dynamic default finds it resolved and raises no OrderingError.
C9_DeclaredBeforeIsResolved ==
    \A i \in DOMAIN dd_lookups :
        DeclaredBefore(dd_lookups[i].group, dd_lookups[i].field) =>
            /\ dd_lookups[i].err = NoErr
            /\ dd_lookups[i].governing
                   \in ResolvedValuesOf(GoverningField(dd_lookups[i].group,
                                                       dd_lookups[i].field))

C9_Witness ==
    /\ state = "Done"
    /\ \E i, j \in DOMAIN dd_lookups :
           /\ DeclaredBefore(dd_lookups[i].group, dd_lookups[i].field)
           /\ LookupOwner(GoverningField(dd_lookups[i].group,
                                         dd_lookups[i].field))
                  = dd_lookups[i].group
           /\ DeclaredBefore(dd_lookups[j].group, dd_lookups[j].field)
           /\ LookupOwner(GoverningField(dd_lookups[j].group,
                                         dd_lookups[j].field))
                  # dd_lookups[j].group

\* No parser the tokens were offered to so far selects an option for t: the
\* root parser names options exactly, a group's own parser also by prefix.
Unmatched(t) ==
    \A i \in DOMAIN consume_log :
        ~TokenMatches(Declarations(consume_log[i].group), t,
                      consume_log[i].group # root)

\* C10: a token no registered option matches is never dropped and never lets
\* resolve reach Done; UnrecognizedTokensError is raised for the leftover
\* tokens only once every group of the captured list and every spawned
\* subtree has been consumed.
C10_UnmatchedTokenFailsLast ==
    /\ state = "Done" =>
           \A i \in DOMAIN parse_str : ~Unmatched(parse_str[i])
    /\ state # "NotStarted" =>
           \A i \in DOMAIN parse_str :
               Unmatched(parse_str[i]) => parse_str[i] \in SeqSet(rem_args)
    /\ error = "UnrecognizedTokensError" =>
           /\ state = "Failed"
           /\ TraversalComplete
           /\ rem_args # <<>>
           /\ \A j \in DOMAIN rem_args : Unmatched(rem_args[j])

C10_Witness ==
    /\ error = "UnrecognizedTokensError"
    /\ Len(ConsumeOrder) > Len(bfs_list) + 1

\* The groups some consume returned as spawned, the root's included.
AllSpawned ==
    UNION {SeqSet(consume_log[i].spawned) : i \in DOMAIN consume_log}

\* C11 as claimed: a token no option of the group being registered matches
\* is kept for the groups registered later, so that a token naming an option
\* of a spawned group gives that option its value when the spawned group is
\* consumed.
C11_TokenReachesSpawnedGroup ==
    \A g \in AllSpawned :
        groups[g].args_are_consumed =>
            \A k \in DOMAIN Declarations(g) :
                ExplicitToken(Declarations(g)[k].name) =>
                    SlotContent(g, Declarations(g)[k].name)
                        = <<"val", ExplicitValue(Declarations(g)[k])>>

\* C12: parse_args_recursively called again on an orchestrator that is Done
\* is rejected: the call fails with AlreadyConsumedError at the root, and
\* Done is entered at most once.
C12_SecondResolveRejected ==
    /\ done_count <= 1
    /\ calls > 1 =>
           /\ state = "Failed"
           /\ error = "AlreadyConsumedError"
           /\ done_count = 1

C12_Witness ==
    /\ calls = 2
    /\ state = "Failed"
    /\ have_parsed_root_flag

\* The direct call of consume probe records: the group had completed a
\* consume before the call; the namespace names a slot the group did not
\* declare as an option when the call was made.
CalledConsume == probe.op = "consume"
ConsumedBeforeCall == probe.before[probe.group].args_are_consumed
OptionsBeforeCall ==
    DOMAIN get_children_args_fields_to_value(probe.before, probe.group)
NamesUndeclared ==
    \E i \in DOMAIN probe.namespace :
        probe.namespace[i][1] \notin OptionsBeforeCall

\* C13: consume on a group that has completed a consume before fails with
\* AlreadyConsumedError and changes nothing: the slots, the children list
\* and the resolved flag of the group are as before the call.  A consume
\* that completes marks the group, and only a marked group is refused.
C13_AlreadyConsumedRejected ==
    CalledConsume =>
        /\ ConsumedBeforeCall =>
               /\ probe.err = "AlreadyConsumedError"
               /\ groups = probe.before
               /\ probe.spawned = <<>>
        /\ probe.err = NoErr => groups[probe.group].args_are_consumed
        /\ probe.err = "AlreadyConsumedError" => ConsumedBeforeCall

C13_Witness ==
    /\ CalledConsume
    /\ ConsumedBeforeCall
    /\ probe.err = "AlreadyConsumedError"
    /\ ~HoldsDeclaration(probe.group)

\* C14 as claimed: a namespace naming a slot the group does not declare as
\* an option makes consume fail with UnexpectedFieldError before any option
\* is processed: the group is as before the call.
C14_UnexpectedFieldCheckedFirst ==
    (CalledConsume /\ ~ConsumedBeforeCall /\ NamesUndeclared) =>
        /\ probe.err = "UnexpectedFieldError"
        /\ groups = probe.before

\* The direct call of sanitize probe records, for an option with a non-empty
\* list of allowed choices.
SanitizedWithChoices ==
    /\ probe.op = "sanitize"
    /\ probe.done
    /\ probe.arg.choices # NoChoices
    /\ probe.arg.choices # {}

\* C15 as claimed: for an option with non-empty allowed choices sanitize
\* fails with InvalidChoiceError exactly when the raw value is not absent
\* and not one of the choices; for one of the choices it returns the value
\* cast to the option's type.
C15_InvalidChoiceExactly ==
    SanitizedWithChoices =>
        /\ probe.err = "InvalidChoiceError"
               <=> (probe.value # None
                    /\ ~py_in(probe.value, probe.arg.choices))
        /\ (probe.value # None /\ py_in(probe.value, probe.arg.choices)) =>
               /\ probe.err = NoErr
               /\ probe.val
                      = cast_value_to_arg_type(probe.arg, probe.value).val


\* The options declared with a constraint checker that a token names.
Constrained(d) == d.constraint_check_fn.kind # "none" /\ ExplicitToken(d.name)
LastConsumeOf(g) ==
    /\ consume_log # <<>>
    /\ consume_log[Len(consume_log)].group = g

\* The integer n lies within the bound the checker c states.
WithinBound(c, n) ==
    CASE c.kind = "lower" /\ c.strict -> n > c.bound
      [] c.kind = "lower" /\ ~c.strict -> n >= c.bound
      [] c.kind = "upper" /\ c.strict -> n < c.bound
      [] c.kind = "upper" /\ ~c.strict -> n <= c.bound
      [] OTHER -> TRUE
Satisfies(d, value) == WithinBound(d.constraint_check_fn, value[2])

\* What C16 says of the option d of group g.
ConstraintEnforced(g, d) ==
    /\ groups[g].args_are_consumed =>
           /\ Satisfies(d, ExplicitValue(d))
           /\ SlotContent(g, d.name) = <<"val", ExplicitValue(d)>>
    /\ ~Satisfies(d, ExplicitValue(d)) =>
           /\ state # "Done"
           /\ ~Resolved(g, d.name)
           /\ (state = "Failed" /\ LastConsumeOf(g)) =>
                  error = "ConstraintViolationError"

\* C16: an explicit value that violates the option's constraint makes
\* resolve fail with ConstraintViolationError (the consume of the option's
\* group raises it and Done is never reached), and an explicit value that
\* satisfies it becomes the resolved value: log_every, which must be
\* strictly greater than 0, resolves to 1 for the token 1 and is rejected
\* for the token -1.
C16_ConstraintEnforced ==
    \A g \in DOMAIN groups :
        \A k \in DOMAIN Declarations(g) :
            Constrained(Declarations(g)[k]) =>
                ConstraintEnforced(g, Declarations(g)[k])

C16_Witness ==
    /\ state = "Failed"
    /\ error = "ConstraintViolationError"
    /\ ExplicitToken("log_every")
    /\ LastTokenVal("log_every") = "-1"
    /\ \E g \in DOMAIN groups :
           /\ LastConsumeOf(g)
           /\ groups[g].cls = "LoggingConfig"
           /\ ~Resolved(g, "log_every")


\* The tightest bounds of a list of bound checkers: the greatest lower bound
\* and the least upper bound, strict when a checker states that bound
\* strictly.
LowersOf(checkers) == {c \in SeqSet(checkers) : c.kind = "lower"}
UppersOf(checkers) == {c \in SeqSet(checkers) : c.kind = "upper"}
Greatest(S) == CHOOSE n \in S : \A m \in S : m <= n
Least(S) == CHOOSE n \in S : \A m \in S : n <= m
TightestLower(checkers) ==
    LowerBoundChecker(
        Greatest({c.bound : c \in LowersOf(checkers)}),
        \E c \in LowersOf(checkers) :
            /\ c.strict
            /\ c.bound = Greatest({d.bound : d \in LowersOf(checkers)}))
TightestUpper(checkers) ==
    UpperBoundChecker(
        Least({c.bound : c \in UppersOf(checkers)}),
        \E c \in UppersOf(checkers) :
            /\ c.strict
            /\ c.bound = Least({d.bound : d \in UppersOf(checkers)}))
Tightest(checkers) ==
    (IF LowersOf(checkers) # {} THEN <<TightestLower(checkers)>> ELSE <<>>)
    \o (IF UppersOf(checkers) # {} THEN <<TightestUpper(checkers)>>
        ELSE <<>>)

Composed == probe.op = "checkers" /\ probe.stage # "new"
CompositeCalled == probe.op = "checkers" /\ probe.stage = "called"
ComponentsCalled == probe.op = "checkers" /\ probe.singles # <<>>

\* C17 as claimed: a composite of lower-bound and upper-bound checkers
\* accepts a value if and only if every component checker accepts it, and
\* the composite holds the tightest lower bound and the tightest upper bound
\* of its components, a strict bound being tighter than a non-strict one of
\* the same value.
C17_CompositeAcceptsIffAll ==
    /\ (CompositeCalled /\ ComponentsCalled) =>
           (probe.result.err = NoErr
                <=> \A i \in DOMAIN probe.singles :
                        probe.singles[i].err = NoErr)
    /\ (Composed /\ probe.built.err = NoErr) =>
           probe.built.checkers = Tightest(probe.checkers)

\* C18 as claimed: constructing a composite fails with an incompatibility
\* error exactly when its tightest lower bound l and tightest upper bound u
\* admit no value: l > u, or l = u with at least one of the two strict.
NoValueAdmitted(l, u) ==
    \/ l.bound > u.bound
    \/ l.bound = u.bound /\ (l.strict \/ u.strict)
C18_IncompatibleExactly ==
    Composed =>
        (probe.built.err = "IncompatibleConstraintsError"
            <=> /\ LowersOf(probe.checkers) # {}
                /\ UppersOf(probe.checkers) # {}
                /\ NoValueAdmitted(TightestLower(probe.checkers),
                                   TightestUpper(probe.checkers)))

\* C19: LowerBound(b, strict) accepts v iff v > b when strict and v >= b
\* when not; UpperBound(b, strict) accepts v iff v < b when strict and
\* v <= b when not; a bound checker or a composite that accepts returns the
\* value unchanged, and a bound checker that does not accept raises an
\* error instead of returning.
C19_BoundSemantics ==
    /\ ComponentsCalled =>
           \A i \in DOMAIN probe.singles :
               /\ probe.singles[i].err = NoErr
                      <=> WithinBound(probe.checkers[i], probe.value[2])
               /\ probe.singles[i].err = NoErr =>
                      probe.singles[i].val = probe.value
               /\ probe.singles[i].err # NoErr =>
                      /\ probe.singles[i].err = "ConstraintViolationError"
                      /\ probe.singles[i].val = None
    /\ CompositeCalled =>
           /\ probe.result.err = NoErr => probe.result.val = probe.value
           /\ probe.result.err # NoErr =>
                  /\ probe.result.err = "ConstraintViolationError"
                  /\ probe.result.val = None

C19_Witness ==
    /\ ComponentsCalled
    /\ CompositeCalled
    /\ probe.checkers = <<LowerBoundChecker(1, FALSE),
                          UpperBoundChecker(3, TRUE)>>
    /\ probe.value = IntV(3)
    /\ probe.singles[1].val = IntV(3)
    /\ probe.singles[2].err = "ConstraintViolationError"
    /\ probe.result.err = "ConstraintViolationError"


\* The resolve of the second instance has ended.
SecondEnded == instance = 2 /\ state \in {"Done", "Failed"}

ParentOf(g) == groups[g].group_parent
ChildrenOf(g) == groups[g].children_argsgroup
Positions(g, c) == {i \in DOMAIN ChildrenOf(g) : ChildrenOf(g)[i] = c}
Listings(c) ==
    UNION {{<<g, i>> : i \in Positions(g, c)} : g \in DOMAIN groups}
RECURSIVE NthParent(_, _)
NthParent(g, n) ==
    IF n = 0 \/ g = NoGroup THEN g ELSE NthParent(ParentOf(g), n - 1)
AncestorsOf(g) == {NthParent(g, n) : n \in 1..Len(groups)} \ {NoGroup}

\* C21 as claimed, the state it describes: after any sequence of group
\* constructions, slot assignments and spawns every group occurs in at most
\* one children list and at most once in it, that list is its parent's, no
\* group is its own ancestor, and so the parent links of any group end at a
\* root.
C21_GroupsFormForest ==
    \A c \in DOMAIN groups :
        /\ Cardinality(Listings(c)) <= 1
        /\ \A g \in DOMAIN groups :
               Positions(g, c) # {} => ParentOf(c) = g
        /\ c \notin AncestorsOf(c)


\* The children list of every group is its static children, in the order
\* the class attaches them, followed by the children its consume spawned,
\* in the order they were spawned.
ChildrenInAttachmentOrder ==
    \A g \in DOMAIN groups :
        /\ StaticsThenSpawned(g, ClassStatics(groups[g].cls),
                              ReturnedSpawns(g))
        /\ \A k \in 1..Len(ClassStatics(groups[g].cls)) :
               SlotContent(g, ClassStatics(groups[g].cls)[k][1])
                   = <<"grp", ChildrenOf(g)[k]>>
\* A step only appends to the children list of a group.
ChildrenOnlyAppended ==
    \A g \in DOMAIN groups :
        /\ g \in DOMAIN groups'
        /\ IsPrefix(groups[g].children_argsgroup,
                    groups'[g].children_argsgroup)

\* C22: the children list of a group holds its nested groups in attachment
\* order, the static children in the order they were attached at
\* construction followed by the spawned children in the order they were
\* spawned, and no step of resolve removes or reorders an entry of it.
C22_ChildrenKeepAttachmentOrder ==
    []ChildrenInAttachmentOrder /\ [][ChildrenOnlyAppended]_vars

C22_Witness ==
    \E g \in DOMAIN groups :
        /\ groups[g].args_are_consumed
        /\ Len(ClassStatics(groups[g].cls)) >= 2
        /\ Len(ReturnedSpawns(g)) >= 1
        /\ Len(ChildrenOf(g)) > Len(ClassStatics(groups[g].cls))


\* The groups below g and the depth of a group, by the parent links.
DescendantsOf(g) == {c \in DOMAIN groups : g \in AncestorsOf(c)}
DepthOf(c) == Cardinality(AncestorsOf(c))
PositionIn(list, c) == CHOOSE i \in DOMAIN list : list[i] = c
Before(list, a, b) == PositionIn(list, a) < PositionIn(list, b)
Siblings(a, b) == a # b /\ ParentOf(a) = ParentOf(b) /\ ParentOf(a) # NoGroup

\* list holds each group below g once, and not g.
ListsSubtree(g, list) ==
    /\ NoDuplicates(list)
    /\ SeqSet(list) = DescendantsOf(g)
    /\ g \notin SeqSet(list)
\* Siblings come in the order of their parent's children list.
SiblingsInOrder(list) ==
    \A a, b \in SeqSet(list) :
        (Siblings(a, b) /\ Before(ChildrenOf(ParentOf(a)), a, b)) =>
            Before(list, a, b)
BreadthFirst(list) ==
    /\ \A i, j \in DOMAIN list :
           i < j => DepthOf(list[i]) <= DepthOf(list[j])
    /\ SiblingsInOrder(list)
\* Pre-order: a group is followed at once by all the groups below it.
PreOrder(list) ==
    /\ \A i \in DOMAIN list :
           {list[j] : j \in (i + 1)..(i + Cardinality(DescendantsOf(list[i])))}
               = DescendantsOf(list[i])
    /\ SiblingsInOrder(list)
TraversalsOf(g, dfs, bfs) ==
    /\ ListsSubtree(g, dfs)
    /\ ListsSubtree(g, bfs)
    /\ PreOrder(dfs)
    /\ BreadthFirst(bfs)

\* C23: the traversal of the groups below a group returns each of them
\* exactly once and never the group itself; the breadth-first order lists
\* them by non-decreasing depth with siblings in attachment order, the
\* depth-first order is pre-order, and both hold the same set of groups.
C23_TraversalsListSubtree ==
    \A g \in DOMAIN groups :
        TraversalsOf(g, get_all_children_argsgroup_dfs(groups, g),
                     get_all_children_argsgroup_bfs(groups, g))

C23_Witness ==
    /\ get_all_children_argsgroup_dfs(groups, root)
           # get_all_children_argsgroup_bfs(groups, root)
    /\ Len(get_all_children_argsgroup_bfs(groups, root)) >= 6
    /\ \E c \in DOMAIN groups : DepthOf(c) >= 3


\* The tree of g by the parent and children links of the heap, and the
\* contents of its non-group slots named field.
RootOf(g) == IF ParentOf(g) = NoGroup THEN g
             ELSE CHOOSE a \in AncestorsOf(g) : ParentOf(a) = NoGroup
TreeOf(g) == {RootOf(g)} \cup DescendantsOf(RootOf(g))
FieldContents(g, field) ==
    {SlotContent(h, field) :
        h \in {o \in TreeOf(g) : /\ HasSlot(o, field)
                                 /\ SlotContent(o, field)[1] # "grp"}}
Looked == probe.op = "forest" /\ probe.lookup # NoLookup

\* C24 as claimed: the lookup of a field, called on any group of a tree,
\* searches the slots of the tree's root and of every group reachable from
\* it: it returns the current content of a non-group slot of that name of
\* the tree, and fails with UnknownFieldError exactly when the tree has
\* none.
C24_LookupSearchesWholeTree ==
    Looked =>
        /\ probe.lookup.err = "UnknownFieldError"
               <=> FieldContents(probe.lookup.group, probe.lookup.field) = {}
        /\ probe.lookup.err = NoErr =>
               probe.lookup.val
                   \in FieldContents(probe.lookup.group, probe.lookup.field)


\* The slots of the called group before the call, and the children the call
\* attached.
SlotsBeforeCall == SlotNames(probe.before[probe.group].slots)
ChildrenBeforeCall == probe.before[probe.group].children_argsgroup
FieldNameOf(c) == groups[c].field_name
Attached(c) == c \in SeqSet(ChildrenOf(probe.group))
\* The groups the call constructed: the heap grew by them.
BuiltByCall == (DOMAIN groups) \ (DOMAIN probe.before)

\* C25 as claimed: spawning fails with DuplicateFieldError when the spawned
\* child's field_name is unset or already names a slot of the spawning
\* group, of any kind; the child is then not attached and the children list
\* is unchanged.  So a consume that raises nothing has attached only
\* children whose field_name is set, was no slot of the group before the
\* call and is not the field_name of another child it attached; and after
\* DuplicateFieldError the children list holds what it held before the
\* failing spawn.
C25_SpawnClashRejected ==
    CalledConsume =>
        /\ probe.err = NoErr =>
               \A c \in SeqSet(probe.spawned) :
                   /\ FieldNameOf(c) # NoFieldName
                   /\ FieldNameOf(c) \notin SlotsBeforeCall
                   /\ \A d \in SeqSet(probe.spawned) :
                          FieldNameOf(d) = FieldNameOf(c) => d = c
        /\ probe.err = "DuplicateFieldError" =>
               /\ ChildrenOf(probe.group)
                      = ChildrenBeforeCall \o probe.spawned
               /\ \E c \in BuiltByCall :
                      ~Attached(c) /\ ParentOf(c) = NoGroup


\* The content of a slot of the called group before and after the call, and
\* the number of its slots of one kind.
ContentBeforeCall(name) ==
    probe.before[probe.group].slots[
        SlotIndex(probe.before[probe.group].slots, name)][2]
KindCount(slots, kind) ==
    Cardinality({i \in DOMAIN slots : slots[i][2][1] = kind})

\* C26 as claimed: consume changes the kind of a slot only from Option
\* Declaration to plain value; the plain-value slots and the nested-group
\* slots the group had before the call hold afterwards what they held
\* before; and a consume that raises nothing leaves no Option Declaration
\* and has added the number of options to the number of plain values.
C26_SlotsOnlyResolve ==
    CalledConsume =>
        /\ \A name \in SlotsBeforeCall :
               /\ HasSlot(probe.group, name)
               /\ ContentBeforeCall(name)[1] = "arg"
                      => SlotContent(probe.group, name)[1] \in {"arg", "val"}
               /\ ContentBeforeCall(name)[1] \in {"val", "grp"}
                      => SlotContent(probe.group, name)
                             = ContentBeforeCall(name)
        /\ probe.err = NoErr =>
               /\ KindCount(groups[probe.group].slots, "arg") = 0
               /\ KindCount(groups[probe.group].slots, "val")
                      = KindCount(probe.before[probe.group].slots, "val")
                        + KindCount(probe.before[probe.group].slots, "arg")


\* The groups resolve has still to consume: the rest of the captured list
\* and the spawned children waiting in the frames of the recursion.
StillToConsume ==
    {bfs_list[i] : i \in bfs_index..Len(bfs_list)}
        \cup UNION {SeqSet(call_stack[k]) : k \in DOMAIN call_stack}
ConsumeErrors ==
    {"TypeCastError", "TypeMismatchError", "InvalidChoiceError",
     "ConstraintViolationError", "OrderingError", "DuplicateFieldError",
     "UnexpectedFieldError", "AlreadyConsumedError", "UnknownFieldError"}

\* C27: a step in which parse-and-consume raises ends resolve at once: the
\* orchestrator is Failed with that error and was never Done; and from a
\* failed orchestrator no step consumes another group, changes a group,
\* replaces the error or leaves Failed.
C27_FailureStopsResolve ==
    [][/\ error' # NoErr =>
              /\ state' = "Failed"
              /\ done_count' = 0
              /\ have_parsed_root_flag' = FALSE
       /\ error # NoErr =>
              UNCHANGED <<state, error, groups, consume_log, bfs_index,
                          call_stack>>]_vars

\* A consume step failed while groups of the resolution order were still
\* waiting.
C27_Witness ==
    /\ state = "Failed"
    /\ error \in ConsumeErrors
    /\ StillToConsume # {}
    /\ \E g \in StillToConsume : ~groups[g].args_are_consumed


\* How often consume was called on g, and the children the consume of the
\* root returned.
TimesConsumed(g) ==
    Cardinality({i \in DOMAIN consume_log : consume_log[i].group = g})
RootSpawned == SeqSet(ReturnedSpawns(root))

\* C28: no spawned child, of the root or of another group, is consumed more
\* than once, and when resolve is Done each has been consumed exactly once.
\* The children the root spawned do not wait in a frame of the recursion:
\* once the breadth-first list is captured they are members of it.
C28_RootSpawnConsumedOnce ==
    /\ \A c \in RootSpawned \cup LoopSpawned :
           /\ TimesConsumed(c) <= 1
           /\ state = "Done" =>
                  TimesConsumed(c) = 1 /\ groups[c].args_are_consumed
    /\ \A k \in DOMAIN call_stack : SeqSet(call_stack[k]) \cap RootSpawned = {}
    /\ state \in {"ChildrenPending", "Done"} =>
           RootSpawned \subseteq SeqSet(bfs_list)

\* A finished resolve in which the root spawned a child, consumed from the
\* captured list, next to a child spawned and consumed in the loop.
C28_Witness ==
    /\ state = "Done"
    /\ \E c \in RootSpawned :
           /\ TimesConsumed(c) = 1
           /\ c \in SeqSet(bfs_list)
           /\ ConsumedBefore(root, c)
    /\ \E d \in LoopSpawned : TimesConsumed(d) = 1


\* The direct call of sanitize on a raw value that is not absent, is outside
\* the option's allowed choices and, cast to an integer, is outside the
\* bound of the option's constraint.
OutsideChoices ==
    /\ probe.value # None
    /\ ~py_in(probe.value, probe.arg.choices)
BreaksConstraint ==
    /\ probe.arg.constraint_check_fn.kind # "none"
    /\ \E n \in -1..5 :
           /\ probe.value \in {IntV(n), StrV(ToString(n))}
           /\ ~WithinBound(probe.arg.constraint_check_fn, n)
FailsBothChecks == SanitizedWithChoices /\ OutsideChoices /\ BreaksConstraint

InstanceOf(v, type) == v[1] = type \/ (type = "int" /\ v[1] = "bool")
HasChoices(d) == d.choices # NoChoices /\ d.choices # {}
Admissible(d, v) ==
    /\ v = None \/ InstanceOf(v, d.type)
    /\ HasChoices(d) => (v = None \/ v \in d.choices)
    /\ (d.constraint_check_fn.kind # "none" /\ v # None)
           => WithinBound(d.constraint_check_fn, v[2])

\* The dynamic default the evaluation r computed, and what is left of a
\* resolve in which it is not admissible.
ComputedDefault(r) == ExpectedDefault(DeclNamed(r.group, r.field), r.governing)
AbortedOn(r) ==
    /\ state = "Failed"
    /\ ~Resolved(r.group, r.field)
    /\ ~groups[r.group].args_are_consumed
    /\ error = IF Satisfies(DeclNamed(r.group, r.field), ComputedDefault(r))
               THEN "InvalidChoiceError"
               ELSE "ConstraintViolationError"

\* C30: every resolved option value of every group, at any moment of resolve
\* and so when it is Done, is admissible for its declaration, whether it came
\* from a token, the static default or a dynamic default; and a computed
\* dynamic default that is not admissible ends resolve with the error an
\* explicit value raises, the option unresolved.
C30_ResolvedValuesAdmissible ==
    /\ \A g \in DOMAIN groups :
           \A k \in DOMAIN Declarations(g) :
               Resolved(g, Declarations(g)[k].name) =>
                   Admissible(Declarations(g)[k],
                              SlotContent(g, Declarations(g)[k].name)[2])
    /\ \A i \in DOMAIN dd_lookups :
           (/\ dd_lookups[i].err = NoErr
            /\ ~Admissible(DeclNamed(dd_lookups[i].group, dd_lookups[i].field),
                           ComputedDefault(dd_lookups[i])))
               => AbortedOn(dd_lookups[i])

\* A finished resolve with a value from a token, a value from a dynamic
\* default and an absent static default, for options with choices and an
\* option with a constraint.
C30_Witness ==
    /\ state = "Done"
    /\ ExplicitToken("dataset")
    /\ \E i \in DOMAIN dd_lookups :
           /\ dd_lookups[i].field = "log_every"
           /\ dd_lookups[i].err = NoErr
           /\ Resolved(dd_lookups[i].group, "log_every")
           /\ SlotContent(dd_lookups[i].group, "log_every")[2] = IntV(100)
    /\ \E j \in DOMAIN dd_lookups :
           /\ dd_lookups[j].field = "model"
           /\ Resolved(dd_lookups[j].group, "model")
    /\ SlotContent(root, "seed") = <<"val", None>>


\* The names of the slots of g that hold an Option Declaration, and the
\* names the namespace of the recorded call gave a value for.
DeclarationNames(g) ==
    {groups[g].slots[i][1] :
        i \in {j \in DOMAIN groups[g].slots : groups[g].slots[j][2][1] = "arg"}}
ProvidedNames == {probe.namespace[i][1] : i \in DOMAIN probe.namespace}

\* C31 as claimed: a group marked resolved holds no Option Declaration, also
\* after a consume that was given values for some of its options only.
C31_ResolvedHoldsNoDeclaration ==
    \A g \in DOMAIN groups :
        groups[g].args_are_consumed => ~HoldsDeclaration(g)

\* C31 amended: a consume that raises nothing marks the group resolved once
\* the options it was given are processed; the options it was not given
\* remain Option Declarations, so none remains exactly when every declared
\* option was given.  A consume that raises leaves the group unmarked.
C31_ResolvedAfterProvided ==
    CalledConsume =>
        /\ probe.err = NoErr =>
               /\ groups[probe.group].args_are_consumed
               /\ DeclarationNames(probe.group)
                      = OptionsBeforeCall \ ProvidedNames
        /\ (probe.err # NoErr /\ ~ConsumedBeforeCall) =>
               ~groups[probe.group].args_are_consumed

\* A consume given one of two declared options: the group is marked
\* resolved and still holds the other declaration.
C31_Witness ==
    /\ CalledConsume
    /\ probe.err = NoErr
    /\ Len(probe.namespace) = 1
    /\ groups[probe.group].args_are_consumed
    /\ Cardinality(DeclarationNames(probe.group)) = 1


\* The recorded call is set_children_args_to_default_values; the slots of
\* its group before and after it.
Filled == probe.op = "fill"
SlotsBeforeFill == probe.before[probe.group].slots
SlotsAfterFill == groups[probe.group].slots

FilledDynamic ==
    /\ Filled
    /\ \E i \in DOMAIN SlotsBeforeFill :
           /\ SlotsBeforeFill[i][2][1] = "arg"
           /\ SlotsBeforeFill[i][2][2].dynamic_default.present


\* C33 as claimed: no slot holds the compute-dynamically marker as a plain
\* value, after consume, after fill_remaining_with_defaults and at any
\* moment of resolve: a slot that is no Option Declaration and no group
\* holds a literal of a value type or the absent value.
C33_NoMarkerAsValue ==
    \A g \in DOMAIN groups :
        \A i \in DOMAIN groups[g].slots :
            groups[g].slots[i][2][1] = "val" =>
                /\ groups[g].slots[i][2][2] # DYNAMIC_DEFAULT_FLAG
                /\ groups[g].slots[i][2][2][1] \in {"none", "int", "str", "bool"}


\* The groups the slots of g hold.
HeldGroups(g) ==
    {groups[g].slots[i][2][2] :
        i \in {j \in DOMAIN groups[g].slots : groups[g].slots[j][2][1] = "grp"}}

\* C34 as claimed: in every state the children list of a group lists exactly
\* the groups its slots hold, each once, and each listed group has the group
\* as its parent, also after a slot holding a group is assigned again and
\* after an attachment rejected because the group already had a parent.
C34_ChildrenAreHeldGroups ==
    \A g \in DOMAIN groups :
        /\ SeqSet(ChildrenOf(g)) = HeldGroups(g)
        /\ NoDuplicates(ChildrenOf(g))
        /\ \A c \in SeqSet(ChildrenOf(g)) : ParentOf(c) = g

\* A slot that held a group holds another one, and the replaced group is
\* still listed; an attachment was rejected and the group is listed by the
\* group that is not its parent.
ReplacedStillListed ==
    \E g \in DOMAIN groups : \E c \in SeqSet(ChildrenOf(g)) :
        c \notin HeldGroups(g) /\ ParentOf(c) = g
RejectedStillListed ==
    /\ probe.op = "forest"
    /\ probe.err = "ParentAlreadySetError"
    /\ \E g \in DOMAIN groups : \E c \in HeldGroups(g) :
           c \in SeqSet(ChildrenOf(g)) /\ ParentOf(c) # g


\* C35 as claimed: at every moment the root a lookup on a group searches,
\* the root cached on the group's first use, is the parentless ancestor its
\* parent links lead to, whatever lookups and attachments came before.
C35_CachedRootIsRoot ==
    acyclic(groups) =>
        \A g \in DOMAIN groups :
            groups[g].root_argsgroup # NoGroup =>
                groups[g].root_argsgroup = RootOf(g)


\* The groups of the tree of g in the order the lookup merges their slots:
\* the root, then its descendants depth first; and the groups among them
\* with a non-group slot named field.
MergeOrder(g) ==
    <<RootOf(g)>> \o get_all_children_argsgroup_dfs(groups, RootOf(g))
Occurrences(g, field) ==
    {i \in DOMAIN MergeOrder(g) :
        /\ HasSlot(MergeOrder(g)[i], field)
        /\ SlotContent(MergeOrder(g)[i], field)[1] # "grp"}
LastOccurrence(g, field) ==
    MergeOrder(g)[CHOOSE i \in Occurrences(g, field) :
                      \A j \in Occurrences(g, field) : j <= i]

\* C36 as claimed: a lookup that finds the name returns the content of its
\* last occurrence in depth-first order over the tree of the group it is
\* called on, the root's own slot only when no descendant has the name;
\* so the result is the same for every group of the tree.
C36_LastOccurrenceWins ==
    (Looked /\ probe.lookup.err = NoErr) =>
        /\ Occurrences(probe.lookup.group, probe.lookup.field) # {}
        /\ probe.lookup.val
               = SlotContent(LastOccurrence(probe.lookup.group,
                                            probe.lookup.field),
                             probe.lookup.field)

\* The lookup was made on a group whose cached root is the root of its tree,
\* in a tree where the name occurs in several groups with different content.
LookedFromRoot ==
    /\ Looked
    /\ groups[probe.lookup.group].root_argsgroup = RootOf(probe.lookup.group)
SeveralOccurrences ==
    /\ LookedFromRoot
    /\ probe.lookup.err = NoErr
    /\ Cardinality(FieldContents(probe.lookup.group, probe.lookup.field)) > 1

\* C37 as claimed: a composite checker enforces every checker it was
\* composed from, components that are themselves composite checkers
\* included: a value that a component of the list rejects is rejected by the
\* composite built from the list.
SomeComponentRejects ==
    \E i \in DOMAIN probe.singles : probe.singles[i].err # NoErr
C37_CompositeEnforcesComponents ==
    (CompositeCalled /\ ComponentsCalled /\ SomeComponentRejects) =>
        probe.result.err # NoErr

\* A composite component rejects the value and the outer composite has been
\* called on it.
NestedRejects ==
    /\ CompositeCalled
    /\ ComponentsCalled
    /\ \E i \in DOMAIN probe.checkers :
           /\ probe.checkers[i].kind = "composite"
           /\ probe.singles[i].err # NoErr

\* C38: consume of a group G changes only G's own slots, G's children list
\* and G's resolved flag, plus the parent link of the children it newly
\* spawns: every other group that was in the heap before the call keeps its
\* slots, children list, parent and resolved flag, G keeps its parent and
\* its class, and every group the call returns is a new group whose parent
\* is G and which G lists as a child.
Consumed == probe.op = "consume"
OthersBefore == DOMAIN probe.before \ {probe.group}
C38_ConsumeFrame ==
    Consumed =>
        /\ DOMAIN probe.before \subseteq DOMAIN groups
        /\ \A g \in OthersBefore :
               /\ groups[g].slots = probe.before[g].slots
               /\ groups[g].children_argsgroup
                      = probe.before[g].children_argsgroup
               /\ groups[g].group_parent = probe.before[g].group_parent
               /\ groups[g].args_are_consumed
                      = probe.before[g].args_are_consumed
        /\ groups[probe.group].group_parent
               = probe.before[probe.group].group_parent
        /\ groups[probe.group].cls = probe.before[probe.group].cls
        /\ \A i \in DOMAIN probe.spawned :
               /\ probe.spawned[i] \notin DOMAIN probe.before
               /\ groups[probe.spawned[i]].group_parent = probe.group
               /\ probe.spawned[i]
                      \in SeqSet(groups[probe.group].children_argsgroup)

\* A consume that spawned a child and resolved G while another group was in
\* the heap, one of them a child of G.
C38_Witness ==
    /\ Consumed
    /\ probe.err = NoErr
    /\ probe.spawned # <<>>
    /\ groups[probe.group].args_are_consumed
    /\ groups[probe.group].slots # probe.before[probe.group].slots
    /\ \E g \in OthersBefore : probe.before[g].group_parent = probe.group
    /\ \E g \in OthersBefore : ~probe.before[g].args_are_consumed

\* C39: for every finite group tree and every finite token list, resolve
\* terminates, in Done or with an error, also when the options of a spawned
\* group spawn further groups: every run of resolve reaches Done or Failed,
\* and stays there.
Ended == state \in {"Done", "Failed"}
C39_ResolveTerminates == <>[]Ended

\* Resolve has ended after a spawned group's consume spawned a further
\* group, here the spawned AnnealConfig that spawns an AnnealConfig again.
SpawnedSpawns ==
    \E i, j \in DOMAIN consume_log :
        /\ i < j
        /\ consume_log[j].group \in SeqSet(consume_log[i].spawned)
        /\ consume_log[j].spawned # <<>>
C39_Witness ==
    /\ Ended
    /\ SpawnedSpawns
    /\ \E i \in DOMAIN consume_log :
           /\ groups[consume_log[i].group].cls = "AnnealConfig"
           /\ consume_log[i].spawned # <<>>
           /\ groups[consume_log[i].spawned[1]].cls = "AnnealConfig"

\* Done reached after a spawned group spawned a further group.
DoneAfterNestedSpawn == state = "Done" /\ SpawnedSpawns

====
